---- MODULE Spec2Model ----
(***************************************************************************)
(* A model of the LogicBoxes API client: the HTTP client                   *)
(* (src/api/client.ts), the error taxonomy (api/errors.ts), the DNS facade *)
(* (api/dns.ts) and the customer facade (api/customers.ts).                *)
(*                                                                         *)
(* JavaScript values are modelled as tagged records: Num(n), Str(s),       *)
(* Undefined, Null, Obj(pairs) and Arr(items).  An object is the sequence  *)
(* of its <<key, value>> pairs in property order, so that iteration order  *)
(* (Object.keys, Object.entries) is part of the model.  JavaScript strings *)
(* are TLA+ strings; includes(), toLowerCase(), endsWith() and parseInt()  *)
(* are computed character by character.                                    *)
(***************************************************************************)
EXTENDS Integers, Sequences, FiniteSets, TLC

VARIABLES
    client,     \* the LogicBoxesClient instance (its four readonly fields)
    sent,       \* every fetch() issued so far, in order: [op, req]
    outcome,    \* how the last facade / client call settled
    calls,      \* the client requests in flight, by call id
    made,       \* the number of calls made so far
    input,      \* the response under study, where one is fixed from the start
    server      \* the MCP server process: where main() is, the tools registered

vars == <<client, sent, outcome, calls, made, input, server>>

-----------------------------------------------------------------------------
(* JavaScript values *)

Undefined == [undef |-> TRUE]
Null == [null |-> TRUE]
Num(n) == [num |-> n]
Str(s) == [str |-> s]
Obj(pairs) == [obj |-> pairs]
Arr(items) == [arr |-> items]
NaN == [nan |-> TRUE]

IsNum(v) == DOMAIN v = {"num"}
IsStr(v) == DOMAIN v = {"str"}
IsObj(v) == DOMAIN v = {"obj"}
IsArr(v) == DOMAIN v = {"arr"}

\* typeof v === 'object' (true of null, objects and arrays)
TypeofObject(v) == v = Null \/ IsObj(v) \/ IsArr(v)

\* v ?? d
Nullish(v, d) == IF v = Undefined \/ v = Null THEN d ELSE v

\* String(v) for the values that reach it (numbers and strings)
String(v) ==
    IF IsNum(v) THEN ToString(v.num)
    ELSE IF v = NaN THEN "NaN"
    ELSE IF IsStr(v) THEN v.str
    ELSE IF v = Null THEN "null"
    ELSE IF v = Undefined THEN "undefined"
    ELSE "[object Object]"

\* o[k] for an object given as its sequence of pairs
Get(pairs, k) ==
    IF \E i \in 1..Len(pairs) : pairs[i][1] = k
    THEN pairs[CHOOSE i \in 1..Len(pairs) : pairs[i][1] = k][2]
    ELSE Undefined

\* k in o
HasKey(pairs, k) == \E i \in 1..Len(pairs) : pairs[i][1] = k

\* v.k for any JSON value v (a property read of a primitive, array or
\* object without the key yields undefined)
Prop(v, k) == IF IsObj(v) THEN Get(v.obj, k) ELSE Undefined

-----------------------------------------------------------------------------
(* JavaScript string functions *)

\* s.includes(sub)
Includes(s, sub) ==
    \E i \in 1..(Len(s) - Len(sub) + 1) : SubSeq(s, i, i + Len(sub) - 1) = sub

\* s.endsWith(suffix)
EndsWith(s, suffix) ==
    /\ Len(s) >= Len(suffix)
    /\ SubSeq(s, Len(s) - Len(suffix) + 1, Len(s)) = suffix

UpperChars == "ABCDEFGHIJKLMNOPQRSTUVWXYZ"
LowerChars == "abcdefghijklmnopqrstuvwxyz"

\* The lower-case letter of each upper-case letter
LowerOf ==
    [c \in {SubSeq(UpperChars, i, i) : i \in 1..Len(UpperChars)} |->
        LET i == CHOOSE j \in 1..Len(UpperChars) : SubSeq(UpperChars, j, j) = c
        IN  SubSeq(LowerChars, i, i)]

LowerChar(c) == IF c \in DOMAIN LowerOf THEN LowerOf[c] ELSE c

RECURSIVE ToLowerCase(_)
\* s.toLowerCase()
ToLowerCase(s) ==
    IF Len(s) = 0 THEN ""
    ELSE LowerChar(SubSeq(s, 1, 1)) \o ToLowerCase(SubSeq(s, 2, Len(s)))

-----------------------------------------------------------------------------
(* Results of a call: it returns a value or throws one *)

Ok(v) == [ok |-> TRUE, val |-> v]
Throw(e) == [ok |-> FALSE, err |-> e]

-----------------------------------------------------------------------------
(* api/errors.ts *)

NoOptions == [statusCode |-> Undefined, apiStatus |-> Undefined, apiMessage |-> Undefined]

\* The classes of errors.ts; instanceof LogicBoxesError is membership here.
LogicBoxesErrorClasses ==
    {"LogicBoxesError", "AuthenticationError", "NotFoundError", "ValidationError", "ApiError"}

\* new <cls>(message, options) for LogicBoxesError and its subclasses
NewError(cls, message, options) ==
    [cls |-> cls, name |-> cls, message |-> message,
     statusCode |-> options.statusCode,
     apiStatus |-> options.apiStatus,
     apiMessage |-> options.apiMessage]

LogicBoxesError(message, options) == NewError("LogicBoxesError", message, options)
AuthenticationError(message, options) == NewError("AuthenticationError", message, options)
NotFoundError(message, options) == NewError("NotFoundError", message, options)
ValidationError(message, options) == NewError("ValidationError", message, options)
ApiError(message, options) == NewError("ApiError", message, options)

\* Errors of the runtime, not of errors.ts
RuntimeError(cls, name, message) ==
    [cls |-> cls, name |-> name, message |-> message,
     statusCode |-> Undefined, apiStatus |-> Undefined, apiMessage |-> Undefined]

\* What controller.abort() makes a pending fetch() or response.json() reject with
AbortError == RuntimeError("DOMException", "AbortError", "This operation was aborted")
\* What fetch() rejects with on a network failure
FetchFailed == RuntimeError("TypeError", "TypeError", "fetch failed")
\* What response.json() rejects with on a body that is not JSON
JsonSyntaxError == RuntimeError("SyntaxError", "SyntaxError", "Unexpected token < in JSON at position 0")
\* What (42).toLowerCase() throws
NotAFunction == RuntimeError("TypeError", "TypeError", "message.toLowerCase is not a function")

IsLogicBoxesError(e) == e.cls \in LogicBoxesErrorClasses

\* error instanceof Error: every class above extends Error, DOMException included
IsError(e) == e.cls \in LogicBoxesErrorClasses \cup {"DOMException", "TypeError", "SyntaxError"}

\* createErrorFromResponse matching the message as it is, not lower-cased
createErrorFromResponse_CaseSensitive(response) ==
    LET status == Get(response, "status")
        message == Nullish(Get(response, "message"), Str("Unknown API error"))
        options == [statusCode |-> Undefined, apiStatus |-> status, apiMessage |-> message]
    IN  IF status # Str("ERROR")
        THEN Ok(NewError("ApiError", String(message), options))
        ELSE IF ~IsStr(message)
        THEN Throw(NotAFunction)
        ELSE IF \/ Includes(message.str, "authentication")
                \/ Includes(message.str, "invalid credentials")
        THEN Ok(NewError("AuthenticationError", message.str, options))
        ELSE IF \/ Includes(message.str, "no entity found")
                \/ Includes(message.str, "not found")
        THEN Ok(NewError("NotFoundError", message.str, options))
        ELSE IF Includes(message.str, "invalid")
        THEN Ok(NewError("ValidationError", message.str, options))
        ELSE Ok(NewError("ApiError", message.str, options))

\* createErrorFromResponse(response): Ok(error) when it returns, Throw(e)
\* when evaluating it throws (a message that is no string has no
\* toLowerCase).  response is the parsed JSON object, as its pairs.
createErrorFromResponse(response) ==
    LET status == Get(response, "status")
        message == Nullish(Get(response, "message"), Str("Unknown API error"))
        options == [statusCode |-> Undefined, apiStatus |-> status, apiMessage |-> message]
    IN  IF status # Str("ERROR")
        THEN Ok(ApiError(String(message), options))
        ELSE IF ~IsStr(message)
        THEN Throw(NotAFunction)
        ELSE LET lowerMessage == ToLowerCase(message.str)
             IN  IF \/ Includes(lowerMessage, "authentication")
                    \/ Includes(lowerMessage, "invalid credentials")
                 THEN Ok(AuthenticationError(message.str, options))
                 ELSE IF \/ Includes(lowerMessage, "no entity found")
                         \/ Includes(lowerMessage, "not found")
                 THEN Ok(NotFoundError(message.str, options))
                 ELSE IF Includes(lowerMessage, "invalid")
                 THEN Ok(ValidationError(message.str, options))
                 ELSE Ok(ApiError(message.str, options))

-----------------------------------------------------------------------------
(* api/types.ts: constants *)

DEFAULT_BASE_URL == "https://httpapi.com/api/"
TEST_BASE_URL == "https://test.httpapi.com/api/"
MIN_TTL == 7200
DEFAULT_TIMEOUT == 30000

DnsRecordTypes == {"A", "AAAA", "CNAME", "MX", "TXT", "NS", "SRV", "SOA"}

DNS_RECORD_TYPE_MAP ==
    [A |-> "ipv4", AAAA |-> "ipv6", CNAME |-> "cname", MX |-> "mx",
     TXT |-> "txt", NS |-> "ns", SRV |-> "srv", SOA |-> "soa"]

-----------------------------------------------------------------------------
(* api/client.ts *)

\* new LogicBoxesClient(config)
NewClient(config) ==
    LET base == String(Nullish(config.baseUrl, Str(DEFAULT_BASE_URL)))
    IN  [authUserId |-> config.authUserId,
         apiKey |-> config.apiKey,
         baseUrl |-> IF ~EndsWith(base, "/") THEN base \o "/" ELSE base,
         timeout |-> Nullish(config.timeout, Num(DEFAULT_TIMEOUT)).num]

\* URLSearchParams.set(key, value): the first pair named key takes the
\* value and later ones are dropped; a new key is appended.
SearchParamsSet(sp, key, value) ==
    IF \E i \in 1..Len(sp) : sp[i][1] = key
    THEN LET first == CHOOSE i \in 1..Len(sp) :
                          sp[i][1] = key /\ \A j \in 1..(i - 1) : sp[j][1] # key
         IN  SelectSeq([i \in 1..Len(sp) |->
                            IF i = first THEN <<key, value>>
                            ELSE IF sp[i][1] = key THEN <<>> ELSE sp[i]],
                       LAMBDA p : p # <<>>)
    ELSE Append(sp, <<key, value>>)

RECURSIVE SetEntries(_, _)
\* for (const [key, value] of Object.entries(params))
\*     if (value !== undefined) url.searchParams.set(key, String(value))
SetEntries(sp, entries) ==
    IF entries = <<>> THEN sp
    ELSE LET key == Head(entries)[1]
             value == Head(entries)[2]
         IN  SetEntries(IF value # Undefined
                        THEN SearchParamsSet(sp, key, String(value))
                        ELSE sp,
                        Tail(entries))

\* Every entry set, the undefined ones as 'undefined'
RECURSIVE SetAllEntries(_, _)
SetAllEntries(sp, entries) ==
    IF entries = <<>> THEN sp
    ELSE SetAllEntries(SearchParamsSet(sp, Head(entries)[1], String(Head(entries)[2])),
                       Tail(entries))

\* buildUrl without the test value !== undefined
buildUrl_SendsUndefined(c, path, params) ==
    LET auth == SearchParamsSet(SearchParamsSet(<<>>, "auth-userid", c.authUserId),
                                "api-key", c.apiKey)
    IN  [href |-> c.baseUrl \o path,
         searchParams |-> IF params # Undefined THEN SetAllEntries(auth, params.obj) ELSE auth]

\* buildUrl(path, params): the URL as its location and its query pairs.
\* Paths are relative and query-free, so new URL(path, baseUrl) is baseUrl
\* followed by path.  params is Undefined or an object.
buildUrl(c, path, params) ==
    LET auth == SearchParamsSet(SearchParamsSet(<<>>, "auth-userid", c.authUserId),
                                "api-key", c.apiKey)
    IN  [href |-> c.baseUrl \o path,
         searchParams |-> IF params # Undefined THEN SetEntries(auth, params.obj) ELSE auth]

\* The RequestInit that request() hands to fetch(), without the signal
RequestInit(method, body) ==
    IF method = "POST" /\ body # Undefined /\ Len(body.obj) > 0
    THEN [method |-> method,
          headers |-> <<<<"Content-Type", "application/x-www-form-urlencoded">>>>,
          body |-> [form |-> SetEntries(<<>>, body.obj)]]
    ELSE [method |-> method, headers |-> <<>>, body |-> Undefined]

\* The HTTP request fetch(url, init) puts on the wire
HttpRequest(url, init) ==
    [method |-> init.method, url |-> url, headers |-> init.headers, body |-> init.body]

\* response.ok
ResponseOk(status) == status \in 200..299

\* The catch block without its first test: every thrown value is wrapped
CatchError_WrapAll(c, error) ==
    IF error.cls = "DOMException" /\ error.name = "AbortError"
    THEN LogicBoxesError("Request timed out after " \o ToString(c.timeout) \o "ms", NoOptions)
    ELSE LogicBoxesError("Network error: " \o (IF IsError(error) THEN error.message
                                                 ELSE "Unknown network error"),
                         NoOptions)

\* The catch block of request(): what the caller sees for a thrown value
CatchError(c, error) ==
    IF IsLogicBoxesError(error) THEN error
    ELSE IF error.cls = "DOMException" /\ error.name = "AbortError"
    THEN LogicBoxesError("Request timed out after " \o ToString(c.timeout) \o "ms", NoOptions)
    ELSE LogicBoxesError("Network error: " \o (IF IsError(error) THEN error.message
                                                 ELSE "Unknown network error"),
                         NoOptions)

\* The try block of request() against what the network does (net): the
\* value it returns, or the value thrown inside it.
\*   net.fetch  "resolve" | "reject" (network failure) | "abort" (timer fired)
\*   net.status, net.statusText   of the response, when fetch resolves
\*   net.json   "resolve" | "reject" (body is not JSON) | "abort" (timer fired)
\*   net.data   the parsed body, when json resolves
TryRequest(net) ==
    IF net.fetch = "abort" THEN Throw(AbortError)
    ELSE IF net.fetch = "reject" THEN Throw(FetchFailed)
    ELSE IF ~ResponseOk(net.status)
    THEN Throw(LogicBoxesError("HTTP " \o ToString(net.status) \o ": " \o net.statusText,
                               [NoOptions EXCEPT !.statusCode = Num(net.status)]))
    ELSE IF net.json = "abort" THEN Throw(AbortError)
    ELSE IF net.json = "reject" THEN Throw(JsonSyntaxError)
    ELSE IF /\ TypeofObject(net.data)
            /\ net.data # Null
            /\ Prop(net.data, "status") \in {Str("ERROR"), Str("error")}
    THEN LET e == createErrorFromResponse(net.data.obj)
         IN  Throw(IF e.ok THEN e.val ELSE e.err)
    ELSE Ok(net.data)

\* request(url, method, body) once the network has done net
request(c, url, method, body, net) ==
    LET r == TryRequest(net)
    IN  IF r.ok THEN r ELSE Throw(CatchError(c, r.err))

\* get(path, params) and post(path, params) up to the call of request():
\* the arguments they pass it
get(c, path, params) ==
    [url |-> buildUrl(c, path, params), method |-> "GET", body |-> Undefined]

\* post handing its params to request() as the form body as well
post_WithBody(c, path, params) ==
    [url |-> buildUrl(c, path, params), method |-> "POST", body |-> params]

post(c, path, params) ==
    [url |-> buildUrl(c, path, params), method |-> "POST", body |-> Undefined]

\* The finally block of request() without clearTimeout
Finally_NoClear(call) == call

\* The finally block of request(): clearTimeout(timeoutId) disarms a timer
\* that has not fired
Finally(call) ==
    [call EXCEPT !.timer = IF @ = "armed" THEN "cleared" ELSE @]

\* request() from its first line to its first await: the controller and
\* the timer are made and fetch(url, init) is called
StartRequest(op, path, params, args) ==
    [op |-> op, path |-> path, params |-> params, args |-> args,
     phase |-> "fetching", timer |-> "armed",
     net |-> [fetch |-> "pending", status |-> 0, statusText |-> "",
              json |-> "pending", data |-> Undefined],
     result |-> Ok(Undefined)]

\* request() from the await that ends it to its return or throw, the
\* network having done net
Settle(c, call, net) ==
    Finally([call EXCEPT !.phase = "settled",
                         !.net = net,
                         !.result = request(c, call.args.url, call.args.method,
                                            call.args.body, net)])

-----------------------------------------------------------------------------
(* api/customers.ts: each method up to its call of the client *)

getByUsername(username) ==
    Ok([method |-> "GET", path |-> "customers/details.json",
        params |-> Obj(<< <<"username", Str(username)>> >>)])

\* customerId is a number, NaN included
getById(customerId) ==
    Ok([method |-> "GET", path |-> "customers/details-by-id.json",
        params |-> Obj(<< <<"customer-id", customerId>> >>)])

-----------------------------------------------------------------------------
(* api/domains.ts: the lookups, each up to its call of the client *)

\* getDetails(orderId, options = 'All')
getDetails(orderId) ==
    Ok([method |-> "GET", path |-> "domains/details.json",
        params |-> Obj(<< <<"order-id", Str(orderId)>>, <<"options", Str("All")>> >>)])

\* getDetailsByName(domainName, options = 'All')
getDetailsByName(domainName) ==
    Ok([method |-> "GET", path |-> "domains/details-by-name.json",
        params |-> Obj(<< <<"domain-name", Str(domainName)>>,
                          <<"options", Str("All")>> >>)])

\* getOrderId(domainName)
getOrderId(domainName) ==
    Ok([method |-> "GET", path |-> "domains/orderid.json",
        params |-> Obj(<< <<"domain-name", Str(domainName)>> >>)])

-----------------------------------------------------------------------------
(* Object.keys and parseInt *)

Digits == "0123456789"

IsDigit(c) == \E i \in 1..Len(Digits) : SubSeq(Digits, i, i) = c
DigitValue(c) == (CHOOSE i \in 1..Len(Digits) : SubSeq(Digits, i, i) = c) - 1

RECURSIVE DigitsValue(_, _)
\* The value of the longest prefix of digits of s, after the digits read so far
DigitsValue(s, acc) ==
    IF Len(s) = 0 \/ ~IsDigit(SubSeq(s, 1, 1)) THEN acc
    ELSE DigitsValue(SubSeq(s, 2, Len(s)), 10 * acc + DigitValue(SubSeq(s, 1, 1)))


RECURSIVE TrimStart(_)
TrimStart(s) ==
    IF Len(s) > 0 /\ SubSeq(s, 1, 1) = " " THEN TrimStart(SubSeq(s, 2, Len(s))) ELSE s

\* parseInt reading one digit only
ParseInt_FirstDigit(s) ==
    IF Len(s) = 0 \/ ~IsDigit(SubSeq(s, 1, 1)) THEN NaN
    ELSE Num(DigitValue(SubSeq(s, 1, 1)))

\* parseInt(s, 10): leading blanks, a sign, then the longest run of digits;
\* NaN when there is no digit
ParseInt(s) ==
    LET t == TrimStart(s)
        signed == Len(t) > 0 /\ SubSeq(t, 1, 1) \in {"-", "+"}
        u == IF signed THEN SubSeq(t, 2, Len(t)) ELSE t
    IN  IF Len(u) = 0 \/ ~IsDigit(SubSeq(u, 1, 1)) THEN NaN
        ELSE IF signed /\ SubSeq(t, 1, 1) = "-" THEN Num(0 - DigitsValue(u, 0))
        ELSE Num(DigitsValue(u, 0))

\* A property name that is an array index: "0", or digits without a leading zero
IsIndexKey(k) ==
    /\ Len(k) > 0
    /\ \A i \in 1..Len(k) : IsDigit(SubSeq(k, i, i))
    /\ (Len(k) > 1 => SubSeq(k, 1, 1) # "0")

\* Object.keys(o) of a parsed JSON object given as its pairs in the order of
\* the text: the index keys in ascending numeric order, then the other keys
\* in the order of the text
ObjectKeys(pairs) ==
    LET keys == [i \in 1..Len(pairs) |-> pairs[i][1]]
        index == SelectSeq(keys, IsIndexKey)
        names == SelectSeq(keys, LAMBDA k : ~IsIndexKey(k))
    IN  SortSeq(index, LAMBDA a, b : DigitsValue(a, 0) < DigitsValue(b, 0)) \o names

-----------------------------------------------------------------------------
(* api/dns.ts *)

getApiType(type) == DNS_RECORD_TYPE_MAP[type]

\* validateTtl with the comparison left out
validateTtl_NoCheck(ttl) == Ok(Undefined)

\* validateTtl(ttl): Ok, or the ValidationError it throws
validateTtl(ttl) ==
    IF ttl.num < MIN_TTL
    THEN Throw(ValidationError("TTL must be at least " \o ToString(MIN_TTL)
                               \o " seconds, got " \o ToString(ttl.num), NoOptions))
    ELSE Ok(Undefined)

\* The own enumerable keys of a JSON value, as Object.keys gives them
KeysOf(v) ==
    IF IsObj(v) THEN ObjectKeys(v.obj)
    ELSE IF IsArr(v) THEN [i \in 1..Len(v.arr) |-> ToString(i - 1)]
    ELSE IF IsStr(v) THEN [i \in 1..Len(v.str) |-> ToString(i - 1)]
    ELSE <<>>

\* raw[key]
Index(v, key) ==
    IF IsObj(v) THEN Get(v.obj, key)
    ELSE IF IsArr(v) /\ IsIndexKey(key) /\ DigitsValue(key, 0) < Len(v.arr)
    THEN v.arr[DigitsValue(key, 0) + 1]
    ELSE IF IsStr(v) /\ IsIndexKey(key) /\ DigitsValue(key, 0) < Len(v.str)
    THEN Str(SubSeq(v.str, DigitsValue(key, 0) + 1, DigitsValue(key, 0) + 1))
    ELSE Undefined

\* 'host' in value, for a value that is a non-null object
InHost(v) == IsObj(v) /\ HasKey(v.obj, "host")

\* parseSearchResponse keeping every non-null object, with a host or without
DnsApi_parseSearchResponse_NoHostCheck(raw) ==
    IF raw = Null \/ raw = Undefined
    THEN Throw(RuntimeError("TypeError", "TypeError",
                            "Cannot convert undefined or null to object"))
    ELSE LET keys == KeysOf(raw)
             values == [i \in 1..Len(keys) |-> Index(raw, keys[i])]
             records == SelectSeq(values,
                                  LAMBDA value : TypeofObject(value) /\ value # Null)
             total == ParseInt(String(Nullish(Index(raw, "recsindb"), Str("0"))))
             pageSize == ParseInt(String(Nullish(Index(raw, "recsonpage"), Str("0"))))
         IN  Ok([records |-> records, total |-> total, pageSize |-> pageSize])

\* DnsApi.parseSearchResponse(raw): Object.keys(null) throws a TypeError
DnsApi_parseSearchResponse(raw) ==
    IF raw = Null \/ raw = Undefined
    THEN Throw(RuntimeError("TypeError", "TypeError",
                            "Cannot convert undefined or null to object"))
    ELSE LET keys == KeysOf(raw)
             values == [i \in 1..Len(keys) |-> Index(raw, keys[i])]
             records == SelectSeq(values,
                                  LAMBDA value : TypeofObject(value) /\ value # Null
                                                 /\ InHost(value))
             total == ParseInt(String(Nullish(Index(raw, "recsindb"), Str("0"))))
             pageSize == ParseInt(String(Nullish(Index(raw, "recsonpage"), Str("0"))))
         IN  Ok([records |-> records, total |-> total, pageSize |-> pageSize])

\* Each method below up to its call of the client: Throw(error) when it
\* throws before, else Ok of the method, path and params it passes on.

searchRecords(params) ==
    LET queryParams == << <<"domain-name", Str(params.domainName)>>,
                          <<"type", Str(params.type)>>,
                          <<"no-of-records", Nullish(params.noOfRecords, Num(50))>>,
                          <<"page-no", Nullish(params.pageNo, Num(1))>> >>
        withHost == IF params.host # Undefined
                    THEN Append(queryParams, <<"host", params.host>>)
                    ELSE queryParams
        withValue == IF params.value # Undefined
                     THEN Append(withHost, <<"value", params.value>>)
                     ELSE withHost
    IN  Ok([method |-> "GET", path |-> "dns/manage/search-records.json",
            params |-> Obj(withValue)])

\* addRecord without the type-specific part: no priority, port or weight is
\* required or sent
addRecord_NoTypeFields(type, params) ==
    IF type = "SOA"
    THEN Throw(ValidationError(
             "SOA records cannot be added; use updateSoa() to update the existing SOA record",
             NoOptions))
    ELSE IF ~validateTtl(params.ttl).ok THEN validateTtl(params.ttl)
    ELSE Ok([method |-> "POST",
             path |-> "dns/manage/add-" \o getApiType(type) \o "-record.json",
             params |-> Obj(<< <<"domain-name", Str(params.domainName)>>,
                               <<"host", Str(params.host)>>,
                               <<"value", Str(params.value)>>,
                               <<"ttl", params.ttl>> >>)])

addRecord(type, params) ==
    IF type = "SOA"
    THEN Throw(ValidationError(
             "SOA records cannot be added; use updateSoa() to update the existing SOA record",
             NoOptions))
    ELSE IF ~validateTtl(params.ttl).ok THEN validateTtl(params.ttl)
    ELSE LET apiType == getApiType(type)
             requestParams == << <<"domain-name", Str(params.domainName)>>,
                                 <<"host", Str(params.host)>>,
                                 <<"value", Str(params.value)>>,
                                 <<"ttl", params.ttl>> >>
             withPriority == IF type \in {"MX", "SRV"}
                             THEN Append(requestParams, <<"priority", params.priority>>)
                             ELSE requestParams
         IN  IF type \in {"MX", "SRV"} /\ params.priority = Undefined
             THEN Throw(ValidationError("Priority is required for " \o type \o " records",
                                        NoOptions))
             ELSE IF type = "SRV" /\ params.port = Undefined
             THEN Throw(ValidationError("Port is required for SRV records", NoOptions))
             ELSE IF type = "SRV" /\ params.weight = Undefined
             THEN Throw(ValidationError("Weight is required for SRV records", NoOptions))
             ELSE Ok([method |-> "POST",
                      path |-> "dns/manage/add-" \o apiType \o "-record.json",
                      params |-> Obj(IF type = "SRV"
                                     THEN withPriority \o << <<"port", params.port>>,
                                                             <<"weight", params.weight>> >>
                                     ELSE withPriority)])

updateRecord(type, params) ==
    IF type = "SOA"
    THEN Throw(ValidationError(
             "SOA records cannot be updated with updateRecord(); use updateSoa() instead",
             NoOptions))
    ELSE IF ~validateTtl(params.ttl).ok THEN validateTtl(params.ttl)
    ELSE LET apiType == getApiType(type)
             requestParams == << <<"domain-name", Str(params.domainName)>>,
                                 <<"host", Str(params.host)>>,
                                 <<"current-value", Str(params.currentValue)>>,
                                 <<"new-value", Str(params.newValue)>>,
                                 <<"ttl", params.ttl>> >>
             withPriority == IF type \in {"MX", "SRV"} /\ params.priority # Undefined
                             THEN Append(requestParams, <<"priority", params.priority>>)
                             ELSE requestParams
             withPort == IF type = "SRV" /\ params.port # Undefined
                         THEN Append(withPriority, <<"port", params.port>>)
                         ELSE withPriority
             withWeight == IF type = "SRV" /\ params.weight # Undefined
                           THEN Append(withPort, <<"weight", params.weight>>)
                           ELSE withPort
         IN  Ok([method |-> "POST",
                 path |-> "dns/manage/update-" \o apiType \o "-record.json",
                 params |-> Obj(withWeight)])

updateSoa(params) ==
    Ok([method |-> "POST", path |-> "dns/manage/update-soa-record.json",
        params |-> Obj(<< <<"domain-name", Str(params.domainName)>>,
                          <<"responsible-person", Str(params.responsiblePerson)>>,
                          <<"refresh", params.refresh>>,
                          <<"retry", params.retry>>,
                          <<"expire", params.expire>>,
                          <<"ttl", params.ttl>> >>)])

\* deleteRecord without its guard on SOA
deleteRecord_NoSoaGuard(type, params) ==
    LET apiType == getApiType(type)
        requestParams == << <<"domain-name", Str(params.domainName)>>,
                            <<"host", Str(params.host)>>,
                            <<"value", Str(params.value)>> >>
    IN  IF type = "SRV" /\ (params.port = Undefined \/ params.weight = Undefined)
        THEN Throw(ValidationError("Port and weight are required", NoOptions))
        ELSE Ok([method |-> "POST",
                 path |-> "dns/manage/delete-" \o apiType \o "-record.json",
                 params |-> Obj(requestParams)])

\* deleteRecord sending port and weight when given, requiring neither
deleteRecord_OptionalFields(type, params) ==
    IF type = "SOA"
    THEN Throw(ValidationError("SOA records cannot be deleted", NoOptions))
    ELSE Ok([method |-> "POST",
             path |-> "dns/manage/delete-" \o getApiType(type) \o "-record.json",
             params |-> Obj(<< <<"domain-name", Str(params.domainName)>>,
                               <<"host", Str(params.host)>>,
                               <<"value", Str(params.value)>>,
                               <<"port", params.port>>,
                               <<"weight", params.weight>> >>)])

deleteRecord(type, params) ==
    IF type = "SOA"
    THEN Throw(ValidationError("SOA records cannot be deleted", NoOptions))
    ELSE LET apiType == getApiType(type)
             requestParams == << <<"domain-name", Str(params.domainName)>>,
                                 <<"host", Str(params.host)>>,
                                 <<"value", Str(params.value)>> >>
         IN  IF type = "SRV" /\ params.port = Undefined
             THEN Throw(ValidationError("Port is required when deleting SRV records",
                                        NoOptions))
             ELSE IF type = "SRV" /\ params.weight = Undefined
             THEN Throw(ValidationError("Weight is required when deleting SRV records",
                                        NoOptions))
             ELSE Ok([method |-> "POST",
                      path |-> "dns/manage/delete-" \o apiType \o "-record.json",
                      params |-> Obj(IF type = "SRV"
                                     THEN requestParams \o << <<"port", params.port>>,
                                                              <<"weight", params.weight>> >>
                                     ELSE requestParams)])

activateDns(orderId) ==
    Ok([method |-> "POST", path |-> "dns/activate.json",
        params |-> Obj(<< <<"order-id", Str(orderId)>> >>)])

-----------------------------------------------------------------------------
(* api/dns.ts: searchAllRecords, one await at a time *)

\* allTypes
allTypes == <<"A", "AAAA", "CNAME", "MX", "TXT", "NS", "SRV", "SOA">>

\* The page size searchAllRecords asks for
AllPageSize == 50

\* hasMore never set
HasMore_Never(total, pageNo) == FALSE

\* a total that is no number taken to promise another page
HasMore_UnlessNumeric(total, pageNo) == ~IsNum(total) \/ total.num > pageNo * AllPageSize

\* result.total > pageNo * 50 (false when total is NaN)
HasMore(total, pageNo) == IsNum(total) /\ total.num > pageNo * AllPageSize

\* the catch block skipping the type whatever was thrown
IsNoRecordsError_Any(error) == TRUE

\* The test of the catch block: the errors that make it skip the type
IsNoRecordsError(error) ==
    /\ IsError(error)
    /\ \/ Includes(error.message, "No records found")
       \/ Includes(error.message, "No Entity found")
       \/ Includes(error.message, "not found")

\* The searchRecords call of one iteration, up to its call of the client
PageQuery(domainName, type, pageNo) ==
    searchRecords([domainName |-> domainName, type |-> type,
                   noOfRecords |-> Num(AllPageSize), pageNo |-> Num(pageNo),
                   host |-> Undefined, value |-> Undefined])

\* searchAllRecords(domainName) up to its first await
StartAll(domainName) ==
    [op |-> "searchAllRecords", domainName |-> domainName, phase |-> "running",
     typeIx |-> 1, pageNo |-> 1, allRecords |-> <<>>, log |-> <<>>,
     result |-> Ok(Undefined)]

\* After the body of the for loop for a type: the next type, or the return
NextType(frame) ==
    IF frame.typeIx = Len(allTypes)
    THEN [frame EXCEPT !.phase = "returned",
                       !.result = Ok([records |-> frame.allRecords,
                                      total |-> Num(Len(frame.allRecords))])]
    ELSE [frame EXCEPT !.typeIx = @ + 1, !.pageNo = 1]

\* searchAllRecords from the await of a searchRecords call, which settles
\* with page (Ok of the parsed page, or Throw), to its next await, its
\* return or its throw.  log keeps what each call settled with.
ResumeAll(frame, page) ==
    LET logged == [frame EXCEPT !.log = Append(@, [type |-> allTypes[frame.typeIx],
                                                   pageNo |-> frame.pageNo,
                                                   page |-> page])]
    IN  IF page.ok
        THEN LET pushed == [logged EXCEPT !.allRecords = @ \o page.val.records]
             IN  IF HasMore(page.val.total, frame.pageNo)
                 THEN [pushed EXCEPT !.pageNo = @ + 1]
                 ELSE NextType(pushed)
        ELSE IF IsNoRecordsError(page.err)
        THEN NextType(logged)
        ELSE [logged EXCEPT !.phase = "threw", !.result = page]

-----------------------------------------------------------------------------
(* api/customers.ts and api/domains.ts: search *)

Bool(b) == [bool |-> b]

\* if (v) ...: every value but undefined, null, false, 0, NaN and ''
Truthy(v) == v \notin {Undefined, Null, Bool(FALSE), Num(0), NaN, Str("")}

\* params?.field, params being undefined or a record
Opt(params, field) == IF params = Undefined THEN Undefined ELSE params[field]

\* The fields of a Customer that parseSearchResponse reads with ?? ''
CustomerFields ==
    <<"customerid", "username", "name", "company", "city", "state", "country",
      "customerstatus", "totalreceipts">>

\* The Customer pushed for one entry of the response
CustomerOf(record) ==
    Obj([i \in 1..Len(CustomerFields) |->
            <<CustomerFields[i],
              Str(String(Nullish(Index(record, "customer." \o CustomerFields[i]), Str(""))))>>]
        \o << <<"websitecount",
                IF Index(record, "customer.websitecount") # Undefined
                THEN Str(String(Index(record, "customer.websitecount")))
                ELSE Undefined>> >>)

\* parseSearchResponse making a customer of every entry, scalars included
CustomerApi_parseSearchResponse_EveryEntry(raw) ==
    IF raw = Null \/ raw = Undefined
    THEN Throw(RuntimeError("TypeError", "TypeError",
                            "Cannot convert undefined or null to object"))
    ELSE LET keys == KeysOf(raw)
             values == [i \in 1..Len(keys) |-> Index(raw, keys[i])]
             total == ParseInt(String(Nullish(Index(raw, "recsindb"), Str("0"))))
             pageSize == ParseInt(String(Nullish(Index(raw, "recsonpage"), Str("0"))))
         IN  Ok([customers |-> [i \in 1..Len(values) |-> CustomerOf(values[i])],
                 total |-> total, pageSize |-> pageSize])

\* CustomerApi.parseSearchResponse(raw)
CustomerApi_parseSearchResponse(raw) ==
    IF raw = Null \/ raw = Undefined
    THEN Throw(RuntimeError("TypeError", "TypeError",
                            "Cannot convert undefined or null to object"))
    ELSE LET keys == KeysOf(raw)
             values == [i \in 1..Len(keys) |-> Index(raw, keys[i])]
             entries == SelectSeq(values,
                                  LAMBDA entry : TypeofObject(entry) /\ entry # Null)
             total == ParseInt(String(Nullish(Index(raw, "recsindb"), Str("0"))))
             pageSize == ParseInt(String(Nullish(Index(raw, "recsonpage"), Str("0"))))
         IN  Ok([customers |-> [i \in 1..Len(entries) |-> CustomerOf(entries[i])],
                 total |-> total, pageSize |-> pageSize])

\* v || d
OrElse(v, d) == IF Truthy(v) THEN v ELSE d

\* CustomerApi.search with || in place of ?? for its defaults
CustomerApi_search_OrDefault(params) ==
    Ok([method |-> "GET", path |-> "customers/search.json",
        params |-> Obj(<< <<"no-of-records", OrElse(Opt(params, "noOfRecords"), Num(25))>>,
                          <<"page-no", OrElse(Opt(params, "pageNo"), Num(1))>>,
                          <<"customer-id", Opt(params, "customerId")>>,
                          <<"username", Opt(params, "username")>>,
                          <<"name", Opt(params, "name")>>,
                          <<"company", Opt(params, "company")>>,
                          <<"city", Opt(params, "city")>>,
                          <<"state", Opt(params, "state")>>,
                          <<"status", Opt(params, "status")>> >>)])

\* CustomerApi.search(params) up to its call of the client
CustomerApi_search(params) ==
    Ok([method |-> "GET", path |-> "customers/search.json",
        params |-> Obj(<< <<"no-of-records", Nullish(Opt(params, "noOfRecords"), Num(25))>>,
                          <<"page-no", Nullish(Opt(params, "pageNo"), Num(1))>>,
                          <<"customer-id", Opt(params, "customerId")>>,
                          <<"username", Opt(params, "username")>>,
                          <<"name", Opt(params, "name")>>,
                          <<"company", Opt(params, "company")>>,
                          <<"city", Opt(params, "city")>>,
                          <<"state", Opt(params, "state")>>,
                          <<"status", Opt(params, "status")>> >>)])

\* dottedKey.indexOf('.'), counted from 1; 0 when there is no dot
IndexOfDot(key) ==
    IF \E i \in 1..Len(key) : SubSeq(key, i, i) = "."
    THEN CHOOSE i \in 1..Len(key) :
             /\ SubSeq(key, i, i) = "."
             /\ \A j \in 1..(i - 1) : SubSeq(key, j, j) # "."
    ELSE 0

\* cleanKey cut after the last dot instead of the first
CleanKey_LastDot(dottedKey) ==
    IF \E i \in 1..Len(dottedKey) : SubSeq(dottedKey, i, i) = "."
    THEN LET last == CHOOSE i \in 1..Len(dottedKey) :
                         /\ SubSeq(dottedKey, i, i) = "."
                         /\ \A j \in (i + 1)..Len(dottedKey) : SubSeq(dottedKey, j, j) # "."
         IN  SubSeq(dottedKey, last + 1, Len(dottedKey))
    ELSE dottedKey

\* cleanKey: dottedKey after its first dot, or all of it
CleanKey(dottedKey) ==
    IF IndexOfDot(dottedKey) > 0
    THEN SubSeq(dottedKey, IndexOfDot(dottedKey) + 1, Len(dottedKey))
    ELSE dottedKey

\* o[k] = v on an object given as its pairs
ObjSet(pairs, k, v) ==
    IF HasKey(pairs, k)
    THEN [i \in 1..Len(pairs) |-> IF pairs[i][1] = k THEN <<k, v>> ELSE pairs[i]]
    ELSE Append(pairs, <<k, v>>)

RECURSIVE StripEntries(_, _, _)
\* for (const [dottedKey, value] of Object.entries(record)) domain[cleanKey] = value
StripEntries(domain, record, keys) ==
    IF keys = <<>> THEN domain
    ELSE StripEntries(ObjSet(domain, CleanKey(Head(keys)), Index(record, Head(keys))),
                      record, Tail(keys))

\* The Domain pushed for one entry of the response
DomainOf(record) ==
    LET domain == StripEntries(<<>>, record, KeysOf(record))
    IN  Obj(IF Truthy(Get(domain, "description")) /\ ~Truthy(Get(domain, "domainname"))
            THEN ObjSet(domain, "domainname", Get(domain, "description"))
            ELSE domain)

\* DomainApi.parseSearchResponse(raw)
DomainApi_parseSearchResponse(raw) ==
    IF raw = Null \/ raw = Undefined
    THEN Throw(RuntimeError("TypeError", "TypeError",
                            "Cannot convert undefined or null to object"))
    ELSE LET keys == KeysOf(raw)
             values == [i \in 1..Len(keys) |-> Index(raw, keys[i])]
             entries == SelectSeq(values,
                                  LAMBDA entry : TypeofObject(entry) /\ entry # Null)
             total == ParseInt(String(Nullish(Index(raw, "recsindb"), Str("0"))))
             pageSize == ParseInt(String(Nullish(Index(raw, "recsonpage"), Str("0"))))
         IN  Ok([domains |-> [i \in 1..Len(entries) |-> DomainOf(entries[i])],
                 total |-> total, pageSize |-> pageSize])

\* DomainApi.search(params) up to its call of the client
DomainApi_search(params) ==
    Ok([method |-> "GET", path |-> "domains/search.json",
        params |-> Obj(<< <<"no-of-records", Nullish(Opt(params, "noOfRecords"), Num(25))>>,
                          <<"page-no", Nullish(Opt(params, "pageNo"), Num(1))>>,
                          <<"customer-id", Opt(params, "customerId")>>,
                          <<"domain-name", Opt(params, "domainName")>>,
                          <<"status", Opt(params, "status")>> >>)])

-----------------------------------------------------------------------------
(* The DNS facade as a state machine: a caller makes DnsApi calls one after *)
(* the other on one client.  Each action is one call, from its validation   *)
(* to the settling of its promise; what the network does is an input.       *)

\* The number of calls a behaviour makes
MaxCalls == 2

DefaultConfig ==
    [authUserId |-> "123456", apiKey |-> "secret",
     baseUrl |-> Undefined, timeout |-> Undefined]

NoOutcome == [op |-> "none", args |-> <<>>, result |-> Ok(Undefined)]

\* The library used without the MCP server: no server process
NoServer == [pc |-> "none"]

\* The fetch() that a call of get/post with these arguments issues
Fetched(args) == HttpRequest(args.url, RequestInit(args.method, args.body))

\* What the network does to a request of the DNS facade
NetSuccess ==
    [fetch |-> "resolve", status |-> 200, statusText |-> "OK", json |-> "resolve",
     data |-> Obj(<< <<"recsonpage", Str("1")>>, <<"recsindb", Str("1")>>,
                     <<"1", Obj(<< <<"host", Str("www")>>,
                                   <<"value", Str("192.0.2.1")>> >>)>> >>)]
NetApiError ==
    [fetch |-> "resolve", status |-> 200, statusText |-> "OK", json |-> "resolve",
     data |-> Obj(<< <<"status", Str("ERROR")>>,
                     <<"message", Str("Invalid parameter")>> >>)]
DnsNet == {NetSuccess, NetApiError}

Ttls == {Num(7199), Num(7200), Num(14400)}
Optional(v) == {Undefined, v}

\* priority, port and weight: all given or none
Extras == {[port |-> Num(443), priority |-> Num(10), weight |-> Num(5)],
           [port |-> Undefined, priority |-> Undefined, weight |-> Undefined]}

AddParams ==
    {[domainName |-> "example.com", host |-> "www", value |-> "192.0.2.1",
      ttl |-> t, priority |-> x.priority, port |-> x.port, weight |-> x.weight] :
        t \in Ttls, x \in Extras}
UpdateParams ==
    {[domainName |-> "example.com", host |-> "www",
      currentValue |-> "192.0.2.1", newValue |-> "192.0.2.2",
      ttl |-> t, priority |-> x.priority, port |-> x.port, weight |-> x.weight] :
        t \in Ttls, x \in Extras}
SoaParams ==
    {[domainName |-> "example.com", responsiblePerson |-> "admin.example.com",
      refresh |-> Num(7200), retry |-> Num(7200), expire |-> Num(172800),
      ttl |-> t] : t \in Ttls}
DeleteParams ==
    {[domainName |-> "example.com", host |-> "www", value |-> "192.0.2.1",
      port |-> x.port, weight |-> x.weight] : x \in Extras}
SearchParams ==
    {[domainName |-> "example.com", type |-> type, noOfRecords |-> Undefined,
      pageNo |-> Undefined, host |-> Str("www"), value |-> Undefined] :
        type \in DnsRecordTypes}

InitDns ==
    /\ client = NewClient(DefaultConfig)
    /\ sent = <<>>
    /\ outcome = NoOutcome
    /\ calls = <<>>
    /\ made = 0
    /\ input = Undefined
    /\ server = NoServer

\* What a facade method returns for the value the client returned
Returned(op, value) ==
    IF op = "searchRecords" THEN DnsApi_parseSearchResponse(value)
    ELSE IF op = "CustomerApi.search" THEN CustomerApi_parseSearchResponse(value)
    ELSE IF op = "DomainApi.search" THEN DomainApi_parseSearchResponse(value)
    ELSE IF op = "getOrderId" THEN Ok(Str(String(value)))
    ELSE Ok(value)

\* One call of a facade method: r is the method up to its call of the client
\* (see above), and what the network does to the request, if one is sent,
\* is an input.
FacadeCall(op, args, r, nets) ==
    /\ IF ~r.ok
       THEN /\ outcome' = [op |-> op, args |-> args, result |-> r]
            /\ sent' = sent
       ELSE \E net \in nets :
                LET a == IF r.val.method = "GET"
                         THEN get(client, r.val.path, r.val.params)
                         ELSE post(client, r.val.path, r.val.params)
                    res == request(client, a.url, a.method, a.body, net)
                IN  /\ outcome' = [op |-> op, args |-> args,
                                   result |-> IF res.ok THEN Returned(op, res.val) ELSE res]
                    /\ sent' = Append(sent, [op |-> op, req |-> Fetched(a)])
    /\ made' = made + 1
    /\ UNCHANGED <<server, client, calls, input>>

\* The caller stops after MaxCalls calls
Busy == made >= MaxCalls

SearchRecords ==
    \E params \in SearchParams :
        /\ ~Busy
        /\ FacadeCall("searchRecords", <<params.type, params>>, searchRecords(params),
                      DnsNet)

\* The params a caller gives for a type: priority, port and weight are read
\* for MX and SRV only, and the other types are called without them
ParamsFor(type, params) ==
    {p \in params : type \in {"MX", "SRV"} \/ p.port = Undefined}

AddRecord ==
    \E type \in DnsRecordTypes :
      \E params \in ParamsFor(type, AddParams) :
        /\ ~Busy
        /\ FacadeCall("addRecord", <<type, params>>, addRecord(type, params), DnsNet)

UpdateRecord ==
    \E type \in DnsRecordTypes :
      \E params \in ParamsFor(type, UpdateParams) :
        /\ ~Busy
        /\ FacadeCall("updateRecord", <<type, params>>, updateRecord(type, params), DnsNet)

UpdateSoa ==
    \E params \in SoaParams :
        /\ ~Busy
        /\ FacadeCall("updateSoa", <<"SOA", params>>, updateSoa(params), DnsNet)

DeleteRecord ==
    \E type \in DnsRecordTypes :
      \E params \in ParamsFor(type, DeleteParams) :
        /\ ~Busy
        /\ FacadeCall("deleteRecord", <<type, params>>, deleteRecord(type, params), DnsNet)

ActivateDns ==
    /\ ~Busy
    /\ FacadeCall("activateDns", <<"none", [orderId |-> "100200"]>>,
                  activateDns("100200"), DnsNet)

NextDns ==
    \/ SearchRecords
    \/ AddRecord
    \/ UpdateRecord
    \/ UpdateSoa
    \/ DeleteRecord
    \/ ActivateDns

SpecDns == InitDns /\ [][NextDns]_vars

-----------------------------------------------------------------------------
(* Properties of the DNS facade (SpecDns) *)

\* The query parameters of the i-th request sent
QueryOf(i) == sent[i].req.url.searchParams
\* The location of the i-th request sent
HrefOf(i) == sent[i].req.url.href

\* The last call was op on a record type and rejected before the client was called
IsValidationError(r) == ~r.ok /\ r.err.cls = "ValidationError"
IsTtlError(r) == IsValidationError(r) /\ Includes(r.err.message, "TTL must be at least")

\* C1: every request sent that carries a ttl query parameter carries a ttl
\* of at least 7200, whatever DnsApi calls were made.
C1_TtlAtLeastMin ==
    \A i \in 1..Len(sent) :
        HasKey(QueryOf(i), "ttl") =>
            LET ttl == ParseInt(Get(QueryOf(i), "ttl"))
            IN  IsNum(ttl) /\ ttl.num >= MIN_TTL

\* C2: addRecord and updateRecord of a type other than SOA with a ttl below
\* 7200 reject with a ValidationError and send nothing; with a ttl of 7200 or
\* more they do not reject for the ttl.
C2_LowTtlRejected ==
    [][(/\ made' = made + 1
        /\ outcome'.op \in {"addRecord", "updateRecord"}
        /\ outcome'.args[1] # "SOA")
       => IF outcome'.args[2].ttl.num < 7200
          THEN IsValidationError(outcome'.result) /\ sent' = sent
          ELSE ~IsTtlError(outcome'.result)]_vars

\* C2's case: a request went out, then an addRecord or updateRecord with a
\* low ttl was rejected and the requests sent stayed as they were.
C2_Witness ==
    /\ made = 2
    /\ Len(sent) = 1
    /\ outcome.op \in {"addRecord", "updateRecord"}
    /\ outcome.args[1] # "SOA"
    /\ outcome.args[2].ttl.num < 7200
    /\ IsTtlError(outcome.result)

\* C3: no request is ever sent to add-soa-record.json or
\* delete-soa-record.json, update-soa-record.json is requested by updateSoa
\* alone, and addRecord, updateRecord and deleteRecord of type SOA reject with
\* a ValidationError and send nothing.
C3_SoaOnlyUpdatedBySoa ==
    /\ [](\A i \in 1..Len(sent) :
            /\ ~Includes(HrefOf(i), "add-soa-record.json")
            /\ ~Includes(HrefOf(i), "delete-soa-record.json")
            /\ Includes(HrefOf(i), "update-soa-record.json") => sent[i].op = "updateSoa")
    /\ [][(/\ made' = made + 1
           /\ outcome'.op \in {"addRecord", "updateRecord", "deleteRecord"}
           /\ outcome'.args[1] = "SOA")
          => IsValidationError(outcome'.result) /\ sent' = sent]_vars

\* C3's case: updateSoa sent its request, then a deleteRecord of type SOA
\* was rejected.
C3_Witness ==
    /\ Len(sent) = 1
    /\ sent[1].op = "updateSoa"
    /\ Includes(HrefOf(1), "update-soa-record.json")
    /\ outcome.op = "deleteRecord"
    /\ outcome.args[1] = "SOA"
    /\ IsValidationError(outcome.result)

-----------------------------------------------------------------------------
(* createErrorFromResponse on its own: the response is fixed at the start   *)
(* and the one action classifies it.                                        *)

ErrorStatuses == {Undefined, Str("ERROR"), Str("error"), Str("Success")}

ErrorMessages ==
    {Undefined, Null, Num(42), Str(""),
     Str("Authentication failed"),
     Str("Invalid Credentials"),
     Str("INVALID CREDENTIALS for reseller"),
     Str("Invalid: Authentication token not found"),
     Str("No Entity found"),
     Str("Record Not Found"),
     Str("Entity not found: invalid id"),
     Str("Invalid parameter"),
     Str("No records found"),
     Str("Something went wrong")}

\* { status, message } with the absent fields left out
ErrorResponse(status, message) ==
    Obj((IF status # Undefined THEN << <<"status", status>> >> ELSE <<>>)
        \o (IF message # Undefined THEN << <<"message", message>> >> ELSE <<>>))

ErrorResponses == {ErrorResponse(st, m) : st \in ErrorStatuses, m \in ErrorMessages}

InitErrors ==
    /\ client = NewClient(DefaultConfig)
    /\ sent = <<>>
    /\ outcome = NoOutcome
    /\ calls = <<>>
    /\ made = 0
    /\ input \in ErrorResponses
    /\ server = NoServer

CreateError ==
    /\ made = 0
    /\ made' = 1
    /\ outcome' = [op |-> "createErrorFromResponse", args |-> <<input>>,
                   result |-> createErrorFromResponse(input.obj)]
    /\ UNCHANGED <<server, client, sent, calls, input>>

NextErrors == CreateError

SpecErrors == InitErrors /\ [][NextErrors]_vars

\* C8: for a response with status 'ERROR' whose message is a string or is
\* absent (then 'Unknown API error'), createErrorFromResponse returns an
\* AuthenticationError if the lower-cased message contains 'authentication'
\* or 'invalid credentials', else a NotFoundError if it contains 'no entity
\* found' or 'not found', else a ValidationError if it contains 'invalid',
\* else an ApiError; the error carries the message, apiStatus = status and
\* apiMessage = message.
C8_Classification ==
    LET given == Get(input.obj, "message")
    IN  (/\ outcome.op = "createErrorFromResponse"
         /\ Get(input.obj, "status") = Str("ERROR")
         /\ (given \in {Undefined, Null} \/ IsStr(given)))
        => LET m == IF given \in {Undefined, Null} THEN "Unknown API error" ELSE given.str
               lower == ToLowerCase(m)
               class == IF Includes(lower, "authentication")
                           \/ Includes(lower, "invalid credentials")
                        THEN "AuthenticationError"
                        ELSE IF Includes(lower, "no entity found")
                                \/ Includes(lower, "not found")
                        THEN "NotFoundError"
                        ELSE IF Includes(lower, "invalid") THEN "ValidationError"
                        ELSE "ApiError"
           IN  /\ outcome.result.ok
               /\ outcome.result.val.cls = class
               /\ outcome.result.val.message = m
               /\ outcome.result.val.apiStatus = Str("ERROR")
               /\ outcome.result.val.apiMessage = Str(m)

\* C8's case: a message in mixed case that matches all three rules is
\* classified by the first.
C8_Witness ==
    /\ outcome.op = "createErrorFromResponse"
    /\ input = ErrorResponse(Str("ERROR"), Str("Invalid: Authentication token not found"))
    /\ outcome.result.ok
    /\ outcome.result.val.cls = "AuthenticationError"
    /\ outcome.result.val.apiMessage = Str("Invalid: Authentication token not found")

-----------------------------------------------------------------------------
(* DnsApi.searchRecords against a fixed response: the parsed body of the    *)
(* response is fixed at the start and the one action is a searchRecords     *)
(* call that the server answers with it.                                    *)

\* The number of entries of a response
MaxEntries == 3

RecordOf(key) ==
    Obj(<< <<"host", Str("host" \o key)>>, <<"value", Str("192.0.2." \o key)>>,
           <<"ttl", Str("14400")>>, <<"type", Str("A")>>, <<"status", Str("Active")>> >>)
NoHostObject(key) == Obj(<< <<"value", Str("192.0.2." \o key)>> >>)

RawEntries ==
    UNION {{<<key, RecordOf(key)>>, <<key, NoHostObject(key)>>, <<key, Null>>} :
              key \in {"1", "2", "3", "10"}}
    \cup {<<"recsindb", Str("2")>>, <<"recsonpage", Str("2")>>, <<"zone", RecordOf("zone")>>}

\* The parsed bodies: objects of up to MaxEntries entries with distinct
\* keys, in every order of the text; null; a string
RawResponses ==
    {Obj(pairs) : pairs \in {p \in UNION {[1..n -> RawEntries] : n \in 0..MaxEntries} :
                                \A i, j \in 1..Len(p) : i # j => p[i][1] # p[j][1]}}
    \cup {Null, Str("ok")}

NetJson(data) ==
    [fetch |-> "resolve", status |-> 200, statusText |-> "OK", json |-> "resolve",
     data |-> data]

InitSearch ==
    /\ client = NewClient(DefaultConfig)
    /\ sent = <<>>
    /\ outcome = NoOutcome
    /\ calls = <<>>
    /\ made = 0
    /\ input \in RawResponses
    /\ server = NoServer

SearchAnswered ==
    \E params \in {q \in SearchParams : q.type = "A"} :
        /\ made = 0
        /\ FacadeCall("searchRecords", <<params.type, params>>, searchRecords(params),
                      {NetJson(input)})

NextSearch == SearchAnswered

SpecSearch == InitSearch /\ [][NextSearch]_vars

\* A value that searchRecords keeps: a non-null object with a 'host' key
IsDnsRecord(v) == IsObj(v) /\ HasKey(v.obj, "host")

\* Entry a of the response comes before entry b in key order: numbered keys
\* ascending, then the other keys in the order of the text
KeyBefore(raw, a, b) ==
    LET ka == raw[a][1]
        kb == raw[b][1]
    IN  \/ IsIndexKey(ka) /\ IsIndexKey(kb) /\ ParseInt(ka).num < ParseInt(kb).num
        \/ IsIndexKey(ka) /\ ~IsIndexKey(kb)
        \/ ~IsIndexKey(ka) /\ ~IsIndexKey(kb) /\ a < b

\* C10: the records searchRecords returns are exactly the values of the
\* response that are non-null objects with a 'host' key, unchanged and in
\* key order (numbered keys ascending); recsindb and recsonpage are never
\* among them; for entries '1'..'n' that are records, with nothing else
\* kept, the array has length n and records[i-1] is entry i.
C10_SearchFlattening ==
    (outcome.op = "searchRecords" /\ outcome.result.ok /\ IsObj(input))
    => LET raw == input.obj
           records == outcome.result.val.records
           kept == {i \in 1..Len(raw) : IsDnsRecord(raw[i][2])}
           rank(i) == Cardinality({a \in kept : KeyBefore(raw, a, i)}) + 1
           n == Cardinality({i \in kept : IsIndexKey(raw[i][1])})
       IN  /\ Len(records) = Cardinality(kept)
           /\ \A i \in kept : records[rank(i)] = raw[i][2]
           /\ \A j \in 1..Len(records) :
                  /\ HasKey(raw, "recsindb") => records[j] # Get(raw, "recsindb")
                  /\ HasKey(raw, "recsonpage") => records[j] # Get(raw, "recsonpage")
           /\ (/\ \A i \in kept : IsIndexKey(raw[i][1])
               /\ \A i \in 1..n : HasKey(raw, ToString(i)) /\ IsDnsRecord(Get(raw, ToString(i))))
              => /\ Len(records) = n
                 /\ \A i \in 1..n : records[i] = Get(raw, ToString(i))

\* C10's case: the text lists entry 2, recsindb, then entry 1; the records
\* come back as entry 1, entry 2.
C10_Witness ==
    /\ outcome.op = "searchRecords"
    /\ outcome.result.ok
    /\ input = Obj(<< <<"2", RecordOf("2")>>, <<"recsindb", Str("2")>>,
                      <<"1", RecordOf("1")>> >>)
    /\ outcome.result.val.records = <<RecordOf("1"), RecordOf("2")>>

-----------------------------------------------------------------------------
(* The client as a state machine: get, post and the two customer lookups    *)
(* start requests; the network answers each in steps (the response arrives, *)
(* its body is read) or fails, and the timer of a request may fire at any   *)
(* time before it is cleared.                                               *)

\* The number of requests a behaviour of the client starts
MaxRequests == 1

TestConfig ==
    [authUserId |-> "654321", apiKey |-> "demo-key",
     baseUrl |-> Str("https://test.httpapi.com/api"), timeout |-> Num(5000)]

Configs == {DefaultConfig, TestConfig}

ClientPaths == {"domains/search.json"}

\* The params maps handed to get and post: none, plain ones, one with an
\* undefined value, one that names an auth key
ClientParams ==
    {Undefined,
     Obj(<< <<"no-of-records", Num(10)>>, <<"page-no", Num(1)>> >>),
     Obj(<< <<"no-of-records", Num(10)>>, <<"status", Undefined>> >>),
     Obj(<< <<"page-no", Num(1)>>, <<"api-key", Str("other-key")>> >>)}

HttpStatuses ==
    {[code |-> 200, text |-> "OK"],
     [code |-> 500, text |-> "Internal Server Error"],
     [code |-> 404, text |-> "Not Found"]}

\* The parsed bodies of the responses
ClientData ==
    {Obj(<< <<"customerid", Str("12345678")>>, <<"username", Str("user@example.com")>> >>),
     ErrorResponse(Str("ERROR"), Str("No Entity found")),
     ErrorResponse(Str("error"), Str("No Entity found")),
     ErrorResponse(Str("ERROR"), Num(42)),
     ErrorResponse(Str("ERROR"), Str("Authentication failed")),
     Null}

InitClient ==
    /\ client \in {NewClient(config) : config \in Configs}
    /\ sent = <<>>
    /\ outcome = NoOutcome
    /\ calls = <<>>
    /\ made = 0
    /\ input = Undefined
    /\ server = NoServer

\* A call of get or post, or of a facade method that calls one (r is the
\* method up to that call), up to the first await of request()
StartCall(op, r) ==
    /\ LET args == IF r.method = "GET"
                   THEN get(client, r.path, r.params)
                   ELSE post(client, r.path, r.params)
       IN  /\ calls' = Append(calls, StartRequest(op, r.path, r.params, args))
           /\ sent' = Append(sent, [op |-> op, req |-> Fetched(args)])
    /\ made' = made + 1
    /\ UNCHANGED <<server, client, outcome, input>>

\* The caller starts MaxRequests requests
MayStart == made < MaxRequests

ClientGet ==
    \E path \in ClientPaths, params \in ClientParams :
        /\ MayStart
        /\ StartCall("get", [method |-> "GET", path |-> path, params |-> params])

ClientPost ==
    \E path \in ClientPaths, params \in ClientParams :
        /\ MayStart
        /\ StartCall("post", [method |-> "POST", path |-> path, params |-> params])

GetByUsername ==
    /\ MayStart
    /\ StartCall("getByUsername", getByUsername("user@example.com").val)

GetById ==
    /\ MayStart
    /\ StartCall("getById", getById(Num(12345678)).val)

\* fetch() resolves with a response: a status that is not ok throws at once,
\* else request() awaits response.json()
FetchResolves ==
    \E id \in DOMAIN calls, st \in HttpStatuses :
        /\ calls[id].phase = "fetching"
        /\ LET net == [calls[id].net EXCEPT !.fetch = "resolve", !.status = st.code,
                                            !.statusText = st.text]
           IN  calls' = [calls EXCEPT ![id] =
                            IF ResponseOk(st.code)
                            THEN [@ EXCEPT !.phase = "reading", !.net = net]
                            ELSE Settle(client, @, net)]
        /\ UNCHANGED <<server, client, sent, outcome, made, input>>

\* fetch() rejects: the network failed
FetchRejects ==
    \E id \in DOMAIN calls :
        /\ calls[id].phase = "fetching"
        /\ calls' = [calls EXCEPT ![id] =
                        Settle(client, @, [@.net EXCEPT !.fetch = "reject"])]
        /\ UNCHANGED <<server, client, sent, outcome, made, input>>

\* response.json() resolves with the parsed body
JsonResolves ==
    \E id \in DOMAIN calls, data \in ClientData :
        /\ calls[id].phase = "reading"
        /\ calls' = [calls EXCEPT ![id] =
                        Settle(client, @, [@.net EXCEPT !.json = "resolve", !.data = data])]
        /\ UNCHANGED <<server, client, sent, outcome, made, input>>

\* response.json() rejects: the body is not JSON
JsonRejects ==
    \E id \in DOMAIN calls :
        /\ calls[id].phase = "reading"
        /\ calls' = [calls EXCEPT ![id] =
                        Settle(client, @, [@.net EXCEPT !.json = "reject"])]
        /\ UNCHANGED <<server, client, sent, outcome, made, input>>

\* One controller for all requests: its abort() rejects every pending one
TimerFires_SharedController ==
    \E id \in DOMAIN calls :
        /\ calls[id].timer = "armed"
        /\ calls' = [other \in DOMAIN calls |->
                        IF calls[other].phase = "fetching"
                        THEN Settle(client, [calls[other] EXCEPT !.timer = "fired"],
                                    [calls[other].net EXCEPT !.fetch = "abort"])
                        ELSE IF calls[other].phase = "reading"
                        THEN Settle(client, [calls[other] EXCEPT !.timer = "fired"],
                                    [calls[other].net EXCEPT !.json = "abort"])
                        ELSE IF other = id THEN [calls[other] EXCEPT !.timer = "fired"]
                        ELSE calls[other]]
        /\ UNCHANGED <<server, client, sent, outcome, made, input>>

\* The timer of a request fires: controller.abort() makes the pending
\* fetch() or response.json() reject; it does nothing to a settled request
TimerFires ==
    \E id \in DOMAIN calls :
        /\ calls[id].timer = "armed"
        /\ calls' = [calls EXCEPT ![id] =
                        IF @.phase = "fetching"
                        THEN Settle(client, [@ EXCEPT !.timer = "fired"],
                                    [@.net EXCEPT !.fetch = "abort"])
                        ELSE IF @.phase = "reading"
                        THEN Settle(client, [@ EXCEPT !.timer = "fired"],
                                    [@.net EXCEPT !.json = "abort"])
                        ELSE [@ EXCEPT !.timer = "fired"]]
        /\ UNCHANGED <<server, client, sent, outcome, made, input>>

NextClient ==
    \/ ClientGet
    \/ ClientPost
    \/ GetByUsername
    \/ GetById
    \/ FetchResolves
    \/ FetchRejects
    \/ JsonResolves
    \/ JsonRejects
    \/ TimerFires

SpecClient == InitClient /\ [][NextClient]_vars

-----------------------------------------------------------------------------
(* Properties of the client *)

Settled(id) == calls[id].phase = "settled"

TimeoutError(c) ==
    LogicBoxesError("Request timed out after " \o ToString(c.timeout) \o "ms", NoOptions)

\* C4: for every path and params map handed to get or post, the URL of the
\* request carries auth-userid and api-key with the values the client was
\* constructed with.
C4_AuthAlwaysSent ==
    \A i \in DOMAIN sent :
        sent[i].op \in {"get", "post"}
            => /\ Get(sent[i].req.url.searchParams, "auth-userid") = client.authUserId
               /\ Get(sent[i].req.url.searchParams, "api-key") = client.apiKey

HttpFailure(net) == net.fetch = "resolve" /\ ~ResponseOk(net.status)
ApiFailure(net) ==
    /\ net.fetch = "resolve" /\ ResponseOk(net.status) /\ net.json = "resolve"
    /\ TypeofObject(net.data) /\ net.data # Null
    /\ Prop(net.data, "status") \in {Str("ERROR"), Str("error")}
TimeoutFailure(net) ==
    net.fetch = "abort" \/ (net.fetch = "resolve" /\ ResponseOk(net.status) /\ net.json = "abort")
NetworkFailure(net) == net.fetch = "reject"
ParseFailure(net) == net.fetch = "resolve" /\ ResponseOk(net.status) /\ net.json = "reject"

Failure(net) ==
    \/ HttpFailure(net)
    \/ ApiFailure(net)
    \/ TimeoutFailure(net)
    \/ NetworkFailure(net)
    \/ ParseFailure(net)

\* C6: a settled request that failed (HTTP status outside 2xx, API error
\* body, timeout, network failure, body that is not JSON) rejects with a
\* LogicBoxesError or a subclass; it resolves only with the parsed body of
\* a response that is none of these; and the LogicBoxesError thrown for an
\* HTTP status or made by createErrorFromResponse reaches the caller as it
\* was thrown.
C6_FailuresAreLogicBoxesErrors ==
    \A id \in DOMAIN calls :
        Settled(id) =>
            LET net == calls[id].net
                result == calls[id].result
            IN  /\ Failure(net) <=> ~result.ok
                /\ ~result.ok => IsLogicBoxesError(result.err)
                /\ result.ok => result.val = net.data
                /\ HttpFailure(net)
                    => result.err =
                        LogicBoxesError("HTTP " \o ToString(net.status) \o ": " \o net.statusText,
                                        [NoOptions EXCEPT !.statusCode = Num(net.status)])
                /\ ApiFailure(net) /\ createErrorFromResponse(net.data.obj).ok
                    => result.err = createErrorFromResponse(net.data.obj).val

\* C6's case: an API error body made the request throw an
\* AuthenticationError, which reached the caller.
C6_Witness ==
    /\ Len(calls) >= 1
    /\ Settled(1)
    /\ ApiFailure(calls[1].net)
    /\ calls[1].result.err.cls = "AuthenticationError"

\* C7: a timer that fires on a request still fetching or reading settles it
\* with LogicBoxesError 'Request timed out after <timeout>ms', <timeout> the
\* configured one or 30000; a request that settles first leaves its timer
\* cleared, so the timer never fires on it; and the result of a settled
\* request never changes.
C7_Timeout ==
    /\ [](\A id \in DOMAIN calls :
            /\ calls[id].timer = "fired"
                => /\ Settled(id)
                   /\ calls[id].result = Throw(TimeoutError(client))
                   /\ client = NewClient(DefaultConfig)
                        => calls[id].result.err.message = "Request timed out after 30000ms"
            /\ Settled(id) /\ calls[id].timer # "fired" => calls[id].timer = "cleared"
            /\ ~Settled(id) => calls[id].timer = "armed")
    /\ [][\A id \in DOMAIN calls :
            Settled(id) => calls'[id] = calls[id]]_vars

\* C7's case: the timer fired while the body was being read.
C7_Witness ==
    \E id \in DOMAIN calls :
        /\ calls[id].timer = "fired"
        /\ calls[id].net.fetch = "resolve"
        /\ calls[id].net.json = "abort"
        /\ client.timeout = DEFAULT_TIMEOUT

\* C9: getByUsername and getById reject with a NotFoundError whenever the
\* response is an error payload (status 'ERROR' or 'error') whose message is
\* 'No Entity found'.
C9_NotFound ==
    \A id \in DOMAIN calls :
        /\ Settled(id)
        /\ calls[id].op \in {"getByUsername", "getById"}
        /\ ApiFailure(calls[id].net)
        /\ Prop(calls[id].net.data, "message") = Str("No Entity found")
        => /\ ~calls[id].result.ok
           /\ calls[id].result.err.cls = "NotFoundError"

-----------------------------------------------------------------------------
(* The three searches against a fixed response: the parsed body is fixed at *)
(* the start, and the one call made is DnsApi.searchRecords,                *)
(* CustomerApi.search or DomainApi.search, answered with it.                *)

\* The number of numbered entries of a response
MaxRows == 2

\* Entries of a customers/search response
CustomerEntries ==
    {Obj(<< <<"customer.customerid", Str("12345678")>>,
            <<"customer.username", Str("user@example.com")>>,
            <<"customer.name", Str("Ann Lee")>>,
            <<"customer.company", Str("Example Ltd")>>,
            <<"customer.city", Str("Leeds")>>,
            <<"customer.state", Str("West Yorkshire")>>,
            <<"customer.country", Str("GB")>>,
            <<"customer.customerstatus", Str("Active")>>,
            <<"customer.totalreceipts", Str("0.00")>>,
            <<"customer.websitecount", Str("2")>> >>),
     Obj(<< <<"customer.customerid", Num(12345678)>>,
            <<"customer.name", Null>>,
            <<"customer.websitecount", Num(0)>>,
            <<"customerid", Str("other")>> >>),
     Obj(<< <<"customer.username", Str("user@example.com")>>,
            <<"customer.websitecount", Null>> >>),
     Obj(<<>>)}

\* Entries of a domains/search response
DomainEntries ==
    {Obj(<< <<"orders.orderid", Str("100200")>>,
            <<"entity.description", Str("example.com")>>,
            <<"entity.currentstatus", Str("Active")>>,
            <<"entitytype.entitytypename", Str("Domain Name")>>,
            <<"orders.endtime", Num(1893456000)>> >>),
     Obj(<< <<"entity.description", Str("example.com")>>,
            <<"entity.domainname", Str("kept.example")>> >>),
     Obj(<< <<"entity.domainname", Str("")>>,
            <<"entity.description", Str("example.com")>> >>),
     Obj(<< <<"entity.description", Str("")>>,
            <<"orders.order.id", Str("100200")>>,
            <<"orderid", Str("100201")>>,
            <<"orders.orderid", Str("100202")>> >>),
     Obj(<< <<"entity.domainname", Null>>, <<"description", Num(0)>> >>),
     Obj(<< <<"orders.customerid", Str("12345678")>>,
            <<"entity.customerid", Str("87654321")>>,
            <<"entity.description", Str("example.org")>> >>)}

\* Entries of a dns search response
DnsEntries == {RecordOf("1"), NoHostObject("2")}

\* recsonpage and recsindb of a response of n entries: absent, as the API
\* sends them, as numbers, null, and a page size that is not n
Metas(n) ==
    {<<>>,
     << <<"recsonpage", Str(ToString(n))>>, <<"recsindb", Str("12")>> >>,
     << <<"recsindb", Num(7)>>, <<"recsonpage", Num(n)>> >>,
     << <<"recsonpage", Null>>, <<"recsindb", Str("0")>> >>,
     << <<"recsonpage", Str("10")>> >>}

\* The parsed bodies: recsonpage and recsindb, then entries "1".."n"
RowResponses(entries) ==
    {Obj(meta \o [i \in 1..n |-> <<ToString(i), rows[i]>>]) :
        <<n, rows, meta>> \in
            UNION {{<<m, r, t>> : r \in [1..m -> entries], t \in Metas(m)} : m \in 0..MaxRows}}

ListingResponses ==
    RowResponses(CustomerEntries \cup {Null}) \cup RowResponses(DomainEntries \cup {Str("n/a")})
    \cup RowResponses(DnsEntries \cup {Num(5)})

InitListing ==
    /\ client = NewClient(DefaultConfig)
    /\ sent = <<>>
    /\ outcome = NoOutcome
    /\ calls = <<>>
    /\ made = 0
    /\ input \in ListingResponses
    /\ server = NoServer

NoFilter ==
    [noOfRecords |-> Undefined, pageNo |-> Undefined, customerId |-> Undefined,
     username |-> Undefined, name |-> Undefined, company |-> Undefined,
     city |-> Undefined, state |-> Undefined, status |-> Undefined,
     domainName |-> Undefined]

\* The params of a search: none, or a page of a given size
ListingParams == {Undefined, [NoFilter EXCEPT !.noOfRecords = Num(10), !.pageNo = Num(2)]}

DnsListing ==
    \E params \in {q \in SearchParams : q.type = "A"} :
        /\ made = 0
        /\ FacadeCall("searchRecords", <<params.type, params>>, searchRecords(params),
                      {NetJson(input)})

CustomerSearch ==
    \E params \in ListingParams :
        /\ made = 0
        /\ FacadeCall("CustomerApi.search", <<"none", params>>, CustomerApi_search(params),
                      {NetJson(input)})

DomainSearch ==
    \E params \in ListingParams :
        /\ made = 0
        /\ FacadeCall("DomainApi.search", <<"none", params>>, DomainApi_search(params),
                      {NetJson(input)})

NextListing ==
    \/ DnsListing
    \/ CustomerSearch
    \/ DomainSearch

SpecListing == InitListing /\ [][NextListing]_vars

\* The array a search returns
RowsOf(o) ==
    IF o.op = "searchRecords" THEN o.result.val.records
    ELSE IF o.op = "CustomerApi.search" THEN o.result.val.customers
    ELSE o.result.val.domains

Searched ==
    /\ outcome.op \in {"searchRecords", "CustomerApi.search", "DomainApi.search"}
    /\ outcome.result.ok

\* The integer a pagination field stands for: n for "n" or the number n
StandsFor(v, n) == v = Str(ToString(n)) \/ v = Num(n)

\* The numbered entries of a response
NumberedEntries(raw) == {i \in 1..Len(raw) : IsIndexKey(raw[i][1])}

\* An entry that the search op makes a row of
IsRow(op, v) ==
    IF op = "searchRecords" THEN IsDnsRecord(v) ELSE (IsObj(v) \/ IsArr(v))

\* C11: in each of the three searches total is the integer that recsindb
\* stands for and pageSize the integer that recsonpage stands for, 0 when
\* the field is absent; and in a response whose numbered entries are all
\* rows and whose recsonpage is their number, pageSize is the length of the
\* returned array.
C11_PaginationMetadata ==
    Searched =>
        LET raw == input.obj
            val == outcome.result.val
        IN  /\ ~HasKey(raw, "recsindb") => val.total = Num(0)
            /\ ~HasKey(raw, "recsonpage") => val.pageSize = Num(0)
            /\ \A n \in 0..12 :
                /\ StandsFor(Get(raw, "recsindb"), n) => val.total = Num(n)
                /\ StandsFor(Get(raw, "recsonpage"), n) => val.pageSize = Num(n)
            /\ (/\ \A i \in NumberedEntries(raw) : IsRow(outcome.op, raw[i][2])
                /\ StandsFor(Get(raw, "recsonpage"), Cardinality(NumberedEntries(raw))))
               => val.pageSize = Num(Len(RowsOf(outcome)))

\* C11's case: a customers response of two entries with recsonpage "2" and
\* recsindb "12" gave pageSize 2 = customers.length and total 12.
C11_Witness ==
    /\ outcome.op = "CustomerApi.search"
    /\ outcome.result.ok
    /\ Get(input.obj, "recsindb") = Str("12")
    /\ Get(input.obj, "recsonpage") = Str("2")
    /\ outcome.result.val.total = Num(12)
    /\ outcome.result.val.pageSize = Num(2)
    /\ Len(outcome.result.val.customers) = 2

\* The entries of a response that are non-null objects, in key order
ObjectEntries(raw) ==
    SelectSeq([i \in 1..Len(KeysOf(raw)) |-> Index(raw, KeysOf(raw)[i])],
              LAMBDA v : IsObj(v) \/ IsArr(v))

\* c is k with everything up to and including its first dot removed
StrippedTo(k, c) ==
    \/ /\ \A i \in 1..Len(k) : SubSeq(k, i, i) # "."
       /\ c = k
    \/ \E i \in 1..Len(k) :
        /\ SubSeq(k, i, i) = "."
        /\ \A j \in 1..(i - 1) : SubSeq(k, j, j) # "."
        /\ c = SubSeq(k, i + 1, Len(k))

\* The value the entry gives for the stripped key c: that of the last of
\* its keys that strip to c, undefined when there is none
StrippedValue(entry, c) ==
    LET keys == KeysOf(entry)
        from == {i \in 1..Len(keys) : StrippedTo(keys[i], c)}
    IN  IF from = {} THEN Undefined
        ELSE Index(entry, keys[CHOOSE i \in from : \A j \in from : j <= i])

\* C12: DomainApi.search returns one domain for each non-null object entry
\* of the response, in key order; the keys of the domain are the entry's
\* keys cut after their first dot (keys without a dot as they are), each
\* with the entry's value for it; and domainname is the value of description
\* exactly when description is truthy and domainname is missing or falsy,
\* a truthy domainname staying as it is.
C12_PrefixStripping ==
    (outcome.op = "DomainApi.search" /\ outcome.result.ok) =>
        LET entries == ObjectEntries(input)
            domains == outcome.result.val.domains
        IN  /\ Len(domains) = Len(entries)
            /\ \A n \in 1..Len(entries) :
                LET entry == entries[n]
                    domain == domains[n].obj
                    keys == KeysOf(entry)
                    description == StrippedValue(entry, "description")
                    domainname == StrippedValue(entry, "domainname")
                    filled == Truthy(description) /\ ~Truthy(domainname)
                IN  /\ \A i, j \in 1..Len(domain) : i # j => domain[i][1] # domain[j][1]
                    /\ \A i \in 1..Len(keys) :
                        \E c \in {domain[d][1] : d \in 1..Len(domain)} : StrippedTo(keys[i], c)
                    /\ \A d \in 1..Len(domain) :
                        \/ \E i \in 1..Len(keys) : StrippedTo(keys[i], domain[d][1])
                        \/ domain[d][1] = "domainname" /\ filled
                    /\ \A d \in 1..Len(domain) :
                        domain[d][1] # "domainname"
                            => domain[d][2] = StrippedValue(entry, domain[d][1])
                    /\ filled => Get(domain, "domainname") = description
                    /\ ~filled => Get(domain, "domainname") = domainname

\* C12's case: an entry with description and without domainname, and one
\* whose key has two dots, have become domains.
C12_Witness ==
    /\ outcome.op = "DomainApi.search"
    /\ outcome.result.ok
    /\ \E d \in 1..Len(outcome.result.val.domains) :
        LET domain == outcome.result.val.domains[d].obj
        IN  /\ Get(domain, "orderid") = Str("100200")
            /\ Get(domain, "domainname") = Str("example.com")
            /\ Get(domain, "entitytypename") = Str("Domain Name")
    /\ \E d \in 1..Len(outcome.result.val.domains) :
        LET domain == outcome.result.val.domains[d].obj
        IN  /\ Get(domain, "order.id") = Str("100200")
            /\ ~HasKey(domain, "domainname")

\* C13: CustomerApi.search returns one customer for each non-null object
\* entry of the response, in key order, and none for the other entries;
\* each of its nine string fields is the string form of the entry's
\* 'customer.<field>', '' when that is absent or null, and websitecount is
\* undefined exactly when 'customer.websitecount' is absent.
C13_CustomerNormalization ==
    (outcome.op = "CustomerApi.search" /\ outcome.result.ok) =>
        LET entries == ObjectEntries(input)
            customers == outcome.result.val.customers
        IN  /\ Len(customers) = Len(entries)
            /\ \A n \in 1..Len(entries) :
                LET entry == entries[n]
                    customer == customers[n].obj
                IN  /\ \A f \in {"customerid", "username", "name", "company", "city",
                                 "state", "country", "customerstatus", "totalreceipts"} :
                        LET v == Index(entry, "customer." \o f)
                        IN  /\ HasKey(customer, f)
                            /\ v \in {Undefined, Null} => Get(customer, f) = Str("")
                            /\ IsStr(v) => Get(customer, f) = v
                            /\ IsNum(v) => Get(customer, f) = Str(ToString(v.num))
                    /\ Get(customer, "websitecount") = Undefined
                        <=> Index(entry, "customer.websitecount") = Undefined
                    /\ Len(customer) = 10

\* C13's case: an entry with a numeric customerid, a null name and no
\* username has become a customer, next to a null entry that has not.
C13_Witness ==
    /\ outcome.op = "CustomerApi.search"
    /\ outcome.result.ok
    /\ \E i \in 1..Len(input.obj) : input.obj[i][2] = Null /\ IsIndexKey(input.obj[i][1])
    /\ Len(outcome.result.val.customers) = 1
    /\ LET customer == outcome.result.val.customers[1].obj
       IN  /\ Get(customer, "customerid") = Str("12345678")
           /\ Get(customer, "name") = Str("")
           /\ Get(customer, "username") = Str("")
           /\ Get(customer, "websitecount") = Str("0")

-----------------------------------------------------------------------------
(* DnsApi.searchAllRecords against a zone that does not change: the zone    *)
(* (how many records it has of each type) is fixed at the start; each       *)
(* searchRecords call of the loop is answered with the page it asks for, or *)
(* fails.                                                                   *)

\* The number of full pages of the largest zone
MaxFullPages == 1

\* The number of page requests of a call that fail
MaxFailures == 2

ZoneCounts == {0, 1} \cup UNION {{AllPageSize * k, AllPageSize * k + 1} : k \in 1..MaxFullPages}

\* The zones: A records in every number, MX records, one SOA
Zones ==
    {[t \in DnsRecordTypes |->
        IF t = "A" THEN a ELSE IF t = "MX" THEN m ELSE IF t = "SOA" THEN 1 ELSE 0] :
        a \in ZoneCounts, m \in {0, 2}}

\* The i-th record of a type
ZoneRecord(type, i) ==
    Obj(<< <<"host", Str(ToLowerCase(type) \o ToString(i))>>, <<"type", Str(type)>> >>)

\* The body the server sends for a page of a type: recsonpage, recsindb and
\* the records of the page under "1", "2", ...
ZonePage(zone, type, pageNo) ==
    LET first == (pageNo - 1) * AllPageSize + 1
        last == IF pageNo * AllPageSize < zone[type] THEN pageNo * AllPageSize
                ELSE zone[type]
        n == IF last >= first THEN last - first + 1 ELSE 0
    IN  Obj(<< <<"recsonpage", Str(ToString(n))>>, <<"recsindb", Str(ToString(zone[type]))>> >>
            \o [i \in 1..n |-> <<ToString(i), ZoneRecord(type, first + i - 1)>>])

NetAbort ==
    [fetch |-> "abort", status |-> 0, statusText |-> "", json |-> "pending",
     data |-> Undefined]
NetHttp500 ==
    [fetch |-> "resolve", status |-> 500, statusText |-> "Internal Server Error",
     json |-> "pending", data |-> Undefined]

\* The ways a page request fails
PageFailures ==
    {NetJson(ErrorResponse(Str("ERROR"), Str("No records found"))),
     NetJson(ErrorResponse(Str("ERROR"), Str("No Entity found"))),
     NetJson(ErrorResponse(Str("error"), Str("Zone not found"))),
     NetJson(ErrorResponse(Str("ERROR"), Str("Authentication failed"))),
     NetJson(ErrorResponse(Str("ERROR"), Str("Invalid domain-name"))),
     NetJson(Null),
     NetAbort,
     NetHttp500}

InitAll ==
    /\ client = NewClient(DefaultConfig)
    /\ sent = <<>>
    /\ outcome = NoOutcome
    /\ calls = <<>>
    /\ made = 0
    /\ input \in Zones
    /\ server = NoServer

\* The request of the iteration the frame is at
PageRequest(frame) ==
    LET q == PageQuery(frame.domainName, allTypes[frame.typeIx], frame.pageNo).val
    IN  get(client, q.path, q.params)

\* A call of searchAllRecords, up to the await of its first searchRecords
SearchAllRecords ==
    /\ made = 0
    /\ LET frame == StartAll("example.com")
       IN  /\ calls' = <<frame>>
           /\ sent' = Append(sent, [op |-> "searchAllRecords",
                                    req |-> Fetched(PageRequest(frame))])
    /\ made' = made + 1
    /\ UNCHANGED <<server, client, outcome, input>>

\* The pending searchRecords call settles, the network having done net, and
\* searchAllRecords runs on to its next await, its return or its throw
PageSettles(net) ==
    /\ Len(calls) = 1
    /\ calls[1].phase = "running"
    /\ LET a == PageRequest(calls[1])
           res == request(client, a.url, a.method, a.body, net)
           page == IF res.ok THEN Returned("searchRecords", res.val) ELSE res
           frame == ResumeAll(calls[1], page)
       IN  /\ calls' = <<frame>>
           /\ sent' = IF frame.phase = "running"
                      THEN Append(sent, [op |-> "searchAllRecords",
                                         req |-> Fetched(PageRequest(frame))])
                      ELSE sent
           /\ outcome' = IF frame.phase = "running" THEN outcome
                         ELSE [op |-> "searchAllRecords",
                               args |-> <<"none", [domainName |-> frame.domainName]>>,
                               result |-> frame.result]
    /\ UNCHANGED <<server, client, made, input>>

\* The server answers with the page asked for
PageAnswered ==
    /\ Len(calls) = 1
    /\ PageSettles(NetJson(ZonePage(input, allTypes[calls[1].typeIx], calls[1].pageNo)))

\* The request fails, at most MaxFailures times in a call
PageFails ==
    \E net \in PageFailures :
        /\ Len(calls) = 1
        /\ Cardinality({i \in 1..Len(calls[1].log) : ~calls[1].log[i].page.ok}) < MaxFailures
        /\ PageSettles(net)

NextAll ==
    \/ SearchAllRecords
    \/ PageAnswered
    \/ PageFails

SpecAll == InitAll /\ [][NextAll]_vars

-----------------------------------------------------------------------------
(* Properties of searchAllRecords (SpecAll) *)

\* The eight types in the order the claim gives
EightTypes == <<"A", "AAAA", "CNAME", "MX", "TXT", "NS", "SRV", "SOA">>

TypeRank(type) == CHOOSE i \in 1..Len(EightTypes) : EightTypes[i] = type

RECURSIVE ConcatPages(_)
\* The records of the pages that were returned, in the order of the calls
ConcatPages(log) ==
    IF log = <<>> THEN <<>>
    ELSE (IF Head(log).page.ok THEN Head(log).page.val.records ELSE <<>>)
         \o ConcatPages(Tail(log))

RECURSIVE ZoneRecords(_, _)
\* All records of the zone from the t-th type on, in type order
ZoneRecords(zone, t) ==
    IF t > Len(EightTypes) THEN <<>>
    ELSE [i \in 1..zone[EightTypes[t]] |-> ZoneRecord(EightTypes[t], i)]
         \o ZoneRecords(zone, t + 1)

\* The call logged at i was answered with the page of the zone it asked for
Faithful(zone, entry) ==
    /\ entry.page.ok
    /\ entry.page = DnsApi_parseSearchResponse(ZonePage(zone, entry.type, entry.pageNo))

\* The reported total of a returned page says there is more after page k
MoreAfter(entry) ==
    /\ entry.page.ok
    /\ IsNum(entry.page.val.total)
    /\ entry.page.val.total.num > 50 * entry.pageNo

\* The message of a thrown error names missing records
NoRecordsMessage(entry) ==
    /\ ~entry.page.ok
    /\ \/ Includes(entry.page.err.message, "No records found")
       \/ Includes(entry.page.err.message, "No Entity found")
       \/ Includes(entry.page.err.message, "not found")

\* C14: searchAllRecords asks for pages of 50 records, first page 1 of type
\* A; after a page k whose reported total is above 50*k it asks for page
\* k+1 of the same type, after any other returned page for page 1 of the
\* next type in the order A, AAAA, CNAME, MX, TXT, NS, SRV, SOA, and after
\* SOA it returns; it returns the concatenation of the returned pages in
\* the order asked, with total = records.length; and when every call was
\* answered with the zone's page, these are all records of the zone, each
\* once, in type order.
C14_AllRecords ==
    \A c \in DOMAIN calls :
        calls[c].op = "searchAllRecords" =>
            LET log == calls[c].log
                running == calls[c].phase = "running"
            IN  /\ Len(sent) = Len(log) + (IF running THEN 1 ELSE 0)
                /\ \A i \in 1..Len(sent) :
                    /\ sent[i].req.method = "GET"
                    /\ sent[i].req.url.href
                           = "https://httpapi.com/api/dns/manage/search-records.json"
                    /\ Get(sent[i].req.url.searchParams, "no-of-records") = "50"
                    /\ Get(sent[i].req.url.searchParams, "domain-name") = "example.com"
                    /\ i = 1 => /\ Get(sent[i].req.url.searchParams, "type") = "A"
                                /\ Get(sent[i].req.url.searchParams, "page-no") = "1"
                    /\ i <= Len(log) =>
                        /\ Get(sent[i].req.url.searchParams, "type") = log[i].type
                        /\ Get(sent[i].req.url.searchParams, "page-no") = ToString(log[i].pageNo)
                    /\ (i > 1 /\ log[i - 1].page.ok) =>
                        IF MoreAfter(log[i - 1])
                        THEN /\ Get(sent[i].req.url.searchParams, "type") = log[i - 1].type
                             /\ Get(sent[i].req.url.searchParams, "page-no")
                                    = ToString(log[i - 1].pageNo + 1)
                        ELSE /\ Get(sent[i].req.url.searchParams, "type")
                                    = EightTypes[TypeRank(log[i - 1].type) + 1]
                             /\ Get(sent[i].req.url.searchParams, "page-no") = "1"
                /\ (~running /\ log[Len(log)].page.ok)
                    => /\ log[Len(log)].type = "SOA"
                       /\ ~MoreAfter(log[Len(log)])
                       /\ calls[c].phase = "returned"
                /\ calls[c].phase = "returned"
                    => /\ calls[c].result.ok
                       /\ calls[c].result.val.records = ConcatPages(log)
                       /\ calls[c].result.val.total = Num(Len(calls[c].result.val.records))
                       /\ outcome.result = calls[c].result
                       /\ (\A i \in 1..Len(log) : Faithful(input, log[i]))
                            => calls[c].result.val.records = ZoneRecords(input, 1)

\* C14's case: a zone with 51 A records, two MX records and its SOA was
\* read in full: two pages of A, one page of each other type.
C14_Witness ==
    /\ Len(calls) = 1
    /\ calls[1].phase = "returned"
    /\ input["A"] = 51 /\ input["MX"] = 2
    /\ \A i \in 1..Len(calls[1].log) : Faithful(input, calls[1].log[i])
    /\ Len(calls[1].log) = 9
    /\ calls[1].result.val.total = Num(54)

\* C15: a page request that fails with an error whose message contains
\* 'No records found', 'No Entity found' or 'not found' makes
\* searchAllRecords go on with page 1 of the next type (or return after
\* SOA), so that a call that returns has queried all eight types; a request
\* that fails with any other error ends the call: it throws that error,
\* returns no result and sends no further request.
C15_ErrorPolicy ==
    \A c \in DOMAIN calls :
        calls[c].op = "searchAllRecords" =>
            LET log == calls[c].log
            IN  /\ \A i \in 1..Len(log) :
                    ~log[i].page.ok =>
                        IF NoRecordsMessage(log[i])
                        THEN /\ i = Len(log) => calls[c].phase # "threw"
                             /\ i < Len(sent) =>
                                 /\ Get(sent[i + 1].req.url.searchParams, "type")
                                        = EightTypes[TypeRank(log[i].type) + 1]
                                 /\ Get(sent[i + 1].req.url.searchParams, "page-no") = "1"
                             /\ i = Len(sent) => /\ log[i].type = "SOA"
                                                 /\ calls[c].phase = "returned"
                        ELSE /\ i = Len(log)
                             /\ Len(sent) = Len(log)
                             /\ calls[c].phase = "threw"
                             /\ calls[c].result = log[i].page
                             /\ outcome.result = log[i].page
                /\ calls[c].phase = "threw"
                    => /\ ~log[Len(log)].page.ok
                       /\ ~NoRecordsMessage(log[Len(log)])
                /\ calls[c].phase = "returned"
                    => \A t \in 1..Len(EightTypes) :
                           \E i \in 1..Len(log) : log[i].type = EightTypes[t]

\* C15's case: the request for A failed with 'No records found', the types
\* after it were still queried and the call returned.
C15_Witness ==
    /\ Len(calls) = 1
    /\ calls[1].phase = "returned"
    /\ ~calls[1].log[1].page.ok
    /\ Includes(calls[1].log[1].page.err.message, "No records found")
    /\ calls[1].log[4].type = "MX"
    /\ calls[1].log[4].page.ok
    /\ Len(calls[1].log) = 8

-----------------------------------------------------------------------------
(* addRecord and deleteRecord with every combination of the type-specific   *)
(* fields: one call, with priority, port and weight each given or not,      *)
(* whatever the type.                                                       *)

Priorities == {Undefined, Num(0), Num(10)}
Ports == {Undefined, Num(443)}
Weights == {Undefined, Num(5)}

FieldAddParams ==
    {[domainName |-> "example.com", host |-> "www", value |-> "192.0.2.1",
      ttl |-> t, priority |-> pr, port |-> po, weight |-> w] :
        t \in {Num(7199), Num(7200)}, pr \in Priorities, po \in Ports, w \in Weights}

\* The caller's object may hold a ttl, which DeleteDnsRecordParams does not name
FieldDeleteParams ==
    {[domainName |-> "example.com", host |-> "www", value |-> "192.0.2.1",
      port |-> po, weight |-> w, ttl |-> t] :
        po \in Ports, w \in Weights, t \in {Undefined, Num(60)}}

InitFields ==
    /\ client = NewClient(DefaultConfig)
    /\ sent = <<>>
    /\ outcome = NoOutcome
    /\ calls = <<>>
    /\ made = 0
    /\ input = Undefined
    /\ server = NoServer

AddWithFields ==
    \E type \in DnsRecordTypes :
      \E params \in FieldAddParams :
        /\ made = 0
        /\ FacadeCall("addRecord", <<type, params>>, addRecord(type, params), DnsNet)

DeleteWithFields ==
    \E type \in DnsRecordTypes :
      \E params \in FieldDeleteParams :
        /\ made = 0
        /\ FacadeCall("deleteRecord", <<type, params>>, deleteRecord(type, params), DnsNet)

NextFields ==
    \/ AddWithFields
    \/ DeleteWithFields

SpecFields == InitFields /\ [][NextFields]_vars

\* The query of the i-th request carries the field with the caller's value
Carries(i, field, value) ==
    /\ HasKey(QueryOf(i), field)
    /\ Get(QueryOf(i), field) = ToString(value.num)

\* C16: addRecord of type MX without priority, and of type SRV without
\* priority, port or weight, rejects with a ValidationError and sends
\* nothing; a request to add-mx-record carries the priority, a request to
\* add-srv-record priority, port and weight, and a request for another type
\* none of the three, given by the caller or not.
C16_AddRequiredFields ==
    outcome.op = "addRecord" =>
        LET type == outcome.args[1]
            params == outcome.args[2]
            missing == \/ type \in {"MX", "SRV"} /\ params.priority = Undefined
                       \/ type = "SRV" /\ params.port = Undefined
                       \/ type = "SRV" /\ params.weight = Undefined
        IN  /\ missing => IsValidationError(outcome.result) /\ sent = <<>>
            /\ (~missing /\ type # "SOA" /\ params.ttl.num >= 7200) => Len(sent) = 1
            /\ \A i \in 1..Len(sent) :
                /\ Includes(HrefOf(i), "add-mx-record.json")
                    => /\ type = "MX"
                       /\ Carries(i, "priority", params.priority)
                       /\ ~HasKey(QueryOf(i), "port")
                       /\ ~HasKey(QueryOf(i), "weight")
                /\ Includes(HrefOf(i), "add-srv-record.json")
                    => /\ type = "SRV"
                       /\ Carries(i, "priority", params.priority)
                       /\ Carries(i, "port", params.port)
                       /\ Carries(i, "weight", params.weight)
                /\ (~Includes(HrefOf(i), "add-mx-record.json")
                    /\ ~Includes(HrefOf(i), "add-srv-record.json"))
                    => /\ type \notin {"MX", "SRV"}
                       /\ ~HasKey(QueryOf(i), "priority")
                       /\ ~HasKey(QueryOf(i), "port")
                       /\ ~HasKey(QueryOf(i), "weight")

\* C16's case: an A record added with priority, port and weight given went
\* out without them.
C16_Witness ==
    /\ outcome.op = "addRecord"
    /\ outcome.args[1] = "A"
    /\ outcome.args[2].priority = Num(10)
    /\ outcome.args[2].port = Num(443)
    /\ outcome.args[2].weight = Num(5)
    /\ Len(sent) = 1
    /\ Includes(HrefOf(1), "add-ipv4-record.json")
    /\ ~HasKey(QueryOf(1), "priority")

\* C17: deleteRecord of type SRV without port or weight rejects with a
\* ValidationError and sends nothing; a request to delete-srv-record carries
\* port and weight, a delete request for another type neither; and no
\* delete request carries a ttl, nor is a call rejected for its ttl.
C17_DeleteRequiredFields ==
    outcome.op = "deleteRecord" =>
        LET type == outcome.args[1]
            params == outcome.args[2]
            missing == type = "SRV" /\ (params.port = Undefined \/ params.weight = Undefined)
        IN  /\ missing => IsValidationError(outcome.result) /\ sent = <<>>
            /\ (~missing /\ type # "SOA") => Len(sent) = 1
            /\ ~IsTtlError(outcome.result)
            /\ \A i \in 1..Len(sent) :
                /\ Includes(HrefOf(i), "dns/manage/delete-")
                /\ ~HasKey(QueryOf(i), "ttl")
                /\ IF Includes(HrefOf(i), "delete-srv-record.json")
                   THEN /\ type = "SRV"
                        /\ Carries(i, "port", params.port)
                        /\ Carries(i, "weight", params.weight)
                   ELSE /\ type # "SRV"
                        /\ ~HasKey(QueryOf(i), "port")
                        /\ ~HasKey(QueryOf(i), "weight")

\* C17's case: an SRV record was deleted with port and weight, the caller's
\* object holding a ttl of 60.
C17_Witness ==
    /\ outcome.op = "deleteRecord"
    /\ outcome.args[1] = "SRV"
    /\ outcome.args[2].ttl = Num(60)
    /\ Len(sent) = 1
    /\ Includes(HrefOf(1), "delete-srv-record.json")
    /\ Get(QueryOf(1), "port") = "443"
    /\ Get(QueryOf(1), "weight") = "5"

-----------------------------------------------------------------------------
(* server/tools: the text the handlers build *)

RECURSIVE Repeat(_, _)
\* s.repeat(n)
Repeat(s, n) == IF n <= 0 THEN "" ELSE s \o Repeat(s, n - 1)

\* s.padEnd(n)
PadEnd(s, n) == s \o Repeat(" ", n - Len(s))

RECURSIVE Join(_, _)
\* items.join(sep), items being strings
Join(items, sep) ==
    IF items = <<>> THEN ""
    ELSE IF Len(items) = 1 THEN items[1]
    ELSE items[1] \o sep \o Join(Tail(items), sep)

\* Math.max(...) of a non-empty set of numbers
MathMax(S) == CHOOSE m \in S : \A n \in S : n <= m

\* `${v}`: the value in a template literal
Template(v) == String(v)

\* formatRecordsTable(records)
formatRecordsTable(records) ==
    IF Len(records) = 0 THEN "No records found."
    ELSE LET Has(field) == \E i \in 1..Len(records) : Index(records[i], field) # Undefined
             optional == SelectSeq(<<"priority", "port", "weight">>, Has)
             titles == [priority |-> "Priority", port |-> "Port", weight |-> "Weight"]
             columns == <<"Type", "Host", "Value", "TTL">>
                        \o [j \in 1..Len(optional) |-> titles[optional[j]]]
             fields == <<"type", "host", "value", "ttl">> \o optional
             rows == [i \in 1..Len(records) |->
                         [j \in 1..Len(fields) |->
                             String(Nullish(Index(records[i], fields[j]), Str("")))]]
             widths == [j \in 1..Len(columns) |->
                           MathMax({Len(columns[j])}
                                   \cup {Len(rows[i][j]) : i \in 1..Len(rows)})]
             header == Join([j \in 1..Len(columns) |-> PadEnd(columns[j], widths[j])], "  ")
             separator == Join([j \in 1..Len(widths) |-> Repeat("-", widths[j])], "  ")
             body == Join([i \in 1..Len(rows) |->
                              Join([j \in 1..Len(columns) |-> PadEnd(rows[i][j], widths[j])],
                                   "  ")],
                          "\n")
         IN  header \o "\n" \o separator \o "\n" \o body

\* n as two digits, and as four
Pad2(n) == IF n < 10 THEN "0" \o ToString(n) ELSE ToString(n)
Pad4(n) == Repeat("0", 4 - Len(ToString(n))) \o ToString(n)

\* new Date(seconds * 1000).toISOString().split('T')[0] for an epoch from
\* 1970 on: the UTC date of the day the second falls in
IsoDate(seconds) ==
    LET z == (seconds \div 86400) + 719468
        era == z \div 146097
        doe == z - era * 146097
        yoe == (doe - (doe \div 1460) + (doe \div 36524) - (doe \div 146096)) \div 365
        doy == doe - (365 * yoe + (yoe \div 4) - (yoe \div 100))
        mp == (5 * doy + 2) \div 153
        d == doy - ((153 * mp + 2) \div 5) + 1
        m == IF mp < 10 THEN mp + 3 ELSE mp - 9
        y == yoe + era * 400 + (IF m <= 2 THEN 1 ELSE 0)
    IN  Pad4(y) \o "-" \o Pad2(m) \o "-" \o Pad2(d)

\* epochToIso(epoch), as the text its callers put in a string; epoch is
\* whatever the response holds
epochToIso(epoch) ==
    IF ~Truthy(epoch) THEN "N/A"
    ELSE LET seconds == ParseInt(String(epoch))
         IN  IF seconds = NaN THEN String(epoch) ELSE IsoDate(seconds.num)

-----------------------------------------------------------------------------
(* server/tools: the input schemas *)

\* allRecordTypes and mutableRecordTypes
allRecordTypes == <<"A", "AAAA", "CNAME", "MX", "TXT", "NS", "SRV", "SOA">>
mutableRecordTypes == <<"A", "AAAA", "CNAME", "MX", "TXT", "NS", "SRV">>

\* z.string(), z.number(), z.enum(values) and the modifiers the schemas use
z_string ==
    [kind |-> "string", values |-> <<>>, min |-> Undefined, max |-> Undefined,
     optional |-> FALSE, default |-> Undefined]
z_number == [z_string EXCEPT !.kind = "number"]
z_enum(values) == [z_string EXCEPT !.kind = "enum", !.values = values]
z_min(t, n) == [t EXCEPT !.min = Num(n)]
z_max(t, n) == [t EXCEPT !.max = Num(n)]
z_optional(t) == [t EXCEPT !.optional = TRUE]
z_default(t, v) == [t EXCEPT !.default = v]

\* The ttl schema with its default only: any number passes
z_ttl_NoMin(min, default) == z_default(z_number, Num(default))

\* z.number().min(7200).default(14400)
z_ttl(min, default) == z_default(z_min(z_number, min), Num(default))

\* What a schema makes of a value: the parsed value, or the rejection.  An
\* omitted argument is Undefined.
z_parse(t, v) ==
    IF v = Undefined
    THEN IF t.default # Undefined THEN Ok(t.default)
         ELSE IF t.optional THEN Ok(Undefined)
         ELSE Throw("Required")
    ELSE IF t.kind = "string"
    THEN IF IsStr(v) THEN Ok(v) ELSE Throw("Expected string")
    ELSE IF t.kind = "enum"
    THEN IF IsStr(v) /\ \E i \in 1..Len(t.values) : t.values[i] = v.str
         THEN Ok(v) ELSE Throw("Invalid enum value")
    ELSE IF ~IsNum(v) THEN Throw("Expected number")
    ELSE IF t.min # Undefined /\ v.num < t.min.num THEN Throw("Number too small")
    ELSE IF t.max # Undefined /\ v.num > t.max.num THEN Throw("Number too big")
    ELSE Ok(v)

\* The tools in the order they are registered, by the function registering them
dnsTools ==
    <<"list_dns_records", "list_all_dns_records", "add_dns_record",
      "update_dns_record", "delete_dns_record", "activate_dns">>
customerTools == <<"list_customers", "get_customer">>
domainTools == <<"list_domains", "get_domain", "get_domain_order_id">>

\* The input schema each server.tool() call gives: its fields and their types
toolSchema(name) ==
    CASE name = "list_dns_records" ->
            << <<"domainName", z_string>>,
               <<"type", z_enum(allRecordTypes)>>,
               <<"host", z_optional(z_string)>>,
               <<"value", z_optional(z_string)>>,
               <<"pageNo", z_optional(z_number)>> >>
      [] name = "list_all_dns_records" ->
            << <<"domainName", z_string>> >>
      [] name = "add_dns_record" ->
            << <<"domainName", z_string>>,
               <<"type", z_enum(mutableRecordTypes)>>,
               <<"host", z_string>>,
               <<"value", z_string>>,
               <<"ttl", z_ttl(7200, 14400)>>,
               <<"priority", z_optional(z_number)>>,
               <<"port", z_optional(z_number)>>,
               <<"weight", z_optional(z_number)>> >>
      [] name = "update_dns_record" ->
            << <<"domainName", z_string>>,
               <<"type", z_enum(mutableRecordTypes)>>,
               <<"host", z_string>>,
               <<"currentValue", z_string>>,
               <<"newValue", z_string>>,
               <<"ttl", z_ttl(7200, 14400)>>,
               <<"priority", z_optional(z_number)>>,
               <<"port", z_optional(z_number)>>,
               <<"weight", z_optional(z_number)>> >>
      [] name = "delete_dns_record" ->
            << <<"domainName", z_string>>,
               <<"type", z_enum(mutableRecordTypes)>>,
               <<"host", z_string>>,
               <<"value", z_string>>,
               <<"port", z_optional(z_number)>>,
               <<"weight", z_optional(z_number)>> >>
      [] name = "activate_dns" ->
            << <<"orderId", z_string>> >>
      [] name = "list_customers" ->
            << <<"pageNo", z_optional(z_number)>>,
               <<"noOfRecords", z_optional(z_number)>>,
               <<"username", z_optional(z_string)>>,
               <<"name", z_optional(z_string)>>,
               <<"company", z_optional(z_string)>>,
               <<"status", z_optional(z_string)>> >>
      [] name = "get_customer" ->
            << <<"username", z_optional(z_string)>>,
               <<"customerId", z_optional(z_string)>> >>
      [] name = "list_domains" ->
            << <<"pageNo", z_optional(z_number)>>,
               <<"noOfRecords", z_optional(z_max(z_min(z_number, 10), 500))>>,
               <<"customerId", z_optional(z_string)>>,
               <<"domainName", z_optional(z_string)>>,
               <<"status", z_optional(z_string)>> >>
      [] name = "get_domain" ->
            << <<"orderId", z_optional(z_string)>>,
               <<"domainName", z_optional(z_string)>> >>
      [] name = "get_domain_order_id" ->
            << <<"domainName", z_string>> >>

\* The names of the fields of a schema
FieldsOf(schema) == {schema[i][1] : i \in 1..Len(schema)}

\* The type a schema gives a field
TypeOf(schema, field) == schema[CHOOSE i \in 1..Len(schema) : schema[i][1] = field][2]

\* The arguments a tool call carries, against the schema of the tool: the
\* object handed to the handler (defaults filled in), or the rejection
parseArgs(schema, raw) ==
    LET bad == {f \in FieldsOf(schema) : ~z_parse(TypeOf(schema, f), raw[f]).ok}
    IN  IF bad # {} THEN Throw([cls |-> "ZodError", issues |-> bad])
        ELSE Ok([f \in FieldsOf(schema) |-> z_parse(TypeOf(schema, f), raw[f]).val])

-----------------------------------------------------------------------------
(* server/tools: the handlers.  A handler is given the client, the parsed  *)
(* arguments and what the network does to the requests it causes; it gives *)
(* the requests issued, what the API call settled with (NoCall when none   *)
(* was made) and the result the handler resolves with.                     *)

\* No call of the API was made
NoCall == [none |-> TRUE]

\* { content: [{ type: 'text', text }] }
TextResult(text) == [content |-> <<[type |-> "text", text |-> text]>>]

\* { content: [{ type: 'text', text }], isError: true }
ErrorResult(text) ==
    [content |-> <<[type |-> "text", text |-> text]>>, isError |-> TRUE]

\* The catch block of a handler
Caught(error) ==
    ErrorResult("Error: " \o (IF IsError(error) THEN error.message ELSE String(error)))

\* The request a facade method made (a, the arguments of request()) and
\* what the method settles with, request() having settled with res
Awaited(op, a, res) ==
    [requests |-> <<[op |-> op, req |-> Fetched(a)]>>,
     result |-> IF res.ok THEN Returned(op, res.val) ELSE res]

\* request() called with the arguments a, the network doing net
Requested(c, op, a, net) == Awaited(op, a, request(c, a.url, a.method, a.body, net))

\* A facade method called and awaited: r is the method up to its call of
\* the client, net what the network does to the request
Invoke(c, op, r, net) ==
    IF ~r.ok THEN [requests |-> <<>>, result |-> r]
    ELSE Requested(c, op,
                   IF r.val.method = "GET" THEN get(c, r.val.path, r.val.params)
                   ELSE post(c, r.val.path, r.val.params),
                   net)

\* What the network does to the page requests of searchAllRecords: it serves
\* a zone, or does the same to every request
Answer(world, type, pageNo) ==
    IF world.zone # Undefined THEN NetJson(ZonePage(world.zone, type, pageNo))
    ELSE world.net

\* The request of the iteration searchAllRecords is at
PageGet(c, frame) ==
    get(c, PageQuery(frame.domainName, allTypes[frame.typeIx], frame.pageNo).val.path,
        PageQuery(frame.domainName, allTypes[frame.typeIx], frame.pageNo).val.params)

\* What the searchRecords call of the iteration settles with
PageOf(c, frame, a, world) ==
    Awaited("searchRecords", a,
            request(c, a.url, a.method, a.body,
                    Answer(world, allTypes[frame.typeIx], frame.pageNo))).result

RECURSIVE RunAll(_, _, _, _)
\* searchAllRecords called and awaited: from frame on, after these requests
RunAll(c, frame, world, requests) ==
    IF frame.phase # "running" THEN [requests |-> requests, result |-> frame.result]
    ELSE RunAll(c, ResumeAll(frame, PageOf(c, frame, PageGet(c, frame), world)), world,
                Append(requests, [op |-> "searchAllRecords",
                                  req |-> Fetched(PageGet(c, frame))]))

\* Number(s) for the strings given as identifiers: digits, or not a number
Number(s) ==
    IF s = "" THEN Num(0)
    ELSE IF \A i \in 1..Len(s) : IsDigit(SubSeq(s, i, i)) THEN Num(DigitsValue(s, 0))
    ELSE NaN

\* TypeError: Cannot read properties of null (reading 'field')
NullRead(v, field) ==
    RuntimeError("TypeError", "TypeError",
                 "Cannot read properties of " \o String(v) \o " (reading '" \o field \o "')")

\* (value ?? '').padEnd(n): a TypeError when the value is not a string
PadCell(value, n) ==
    IF IsStr(Nullish(value, Str(""))) THEN Ok(PadEnd(Nullish(value, Str("")).str, n))
    ELSE Throw(RuntimeError("TypeError", "TypeError",
                            "(intermediate value).padEnd is not a function"))

\* (given !== undefined ? `\n  Label: ${given}` : '')
Line(label, given) ==
    IF given # Undefined THEN "\n  " \o label \o ": " \o Template(given) ELSE ""

\* What each try block builds after its await, value being what the API
\* call returned: Ok of the text, or what building it throws

list_dns_records_text(args, value) ==
    Ok("Found " \o Template(value.total) \o " " \o args.type.str
       \o " record(s) for " \o args.domainName.str \o "\n\n"
       \o formatRecordsTable(value.records))

\* if (!grouped[rtype]) grouped[rtype] = []; grouped[rtype].push(record)
Pushed(grouped, rtype, record) ==
    ObjSet(grouped, rtype,
           Append(IF HasKey(grouped, rtype) THEN Get(grouped, rtype) ELSE <<>>, record))

RECURSIVE GroupByType(_, _)
\* grouped[String(record.type ?? 'UNKNOWN')].push(record), record by record
GroupByType(grouped, records) ==
    IF records = <<>> THEN grouped
    ELSE GroupByType(Pushed(grouped,
                            String(Nullish(Index(Head(records), "type"), Str("UNKNOWN"))),
                            Head(records)),
                     Tail(records))

\* The section of each type, grouped being the groups in insertion order
Sections(grouped) ==
    [i \in 1..Len(ObjectKeys(grouped)) |->
        "--- " \o ObjectKeys(grouped)[i] \o " Records ("
        \o ToString(Len(Get(grouped, ObjectKeys(grouped)[i]))) \o ") ---\n"
        \o formatRecordsTable(Get(grouped, ObjectKeys(grouped)[i]))]

list_all_dns_records_text(args, value) ==
    Ok("Total: " \o Template(value.total) \o " record(s) for "
       \o args.domainName.str \o "\n\n"
       \o (IF Len(value.records) > 0
           THEN Join(Sections(GroupByType(<<>>, value.records)), "\n\n")
           ELSE "No records found."))

add_dns_record_text(args, value) ==
    Ok("Successfully added " \o args.type.str \o " record for "
       \o args.domainName.str \o ":\n"
       \o "  Host:  " \o args.host.str \o "\n"
       \o "  Value: " \o args.value.str \o "\n"
       \o "  TTL:   " \o Template(args.ttl)
       \o Line("Priority", args.priority)
       \o Line("Port", args.port)
       \o Line("Weight", args.weight))

update_dns_record_text(args, value) ==
    Ok("Successfully updated " \o args.type.str \o " record for "
       \o args.domainName.str \o ":\n"
       \o "  Host:      " \o args.host.str \o "\n"
       \o "  Old Value: " \o args.currentValue.str \o "\n"
       \o "  New Value: " \o args.newValue.str \o "\n"
       \o "  TTL:       " \o Template(args.ttl)
       \o Line("Priority", args.priority)
       \o Line("Port", args.port)
       \o Line("Weight", args.weight))

delete_dns_record_text(args, value) ==
    Ok("Successfully deleted " \o args.type.str \o " record from "
       \o args.domainName.str \o ":\n"
       \o "  Host:  " \o args.host.str \o "\n"
       \o "  Value: " \o args.value.str
       \o Line("Port", args.port)
       \o Line("Weight", args.weight))

activate_dns_text(args, value) ==
    Ok("Successfully activated DNS for order " \o args.orderId.str \o ".")

\* One row of the table of list_customers
CustomerRow(customer) ==
    PadEnd(Index(customer, "customerid").str, 12)
    \o PadEnd(Index(customer, "username").str, 28)
    \o PadEnd(Index(customer, "name").str, 22)
    \o PadEnd(Index(customer, "company").str, 18)
    \o Index(customer, "customerstatus").str

list_customers_text(args, value) ==
    IF Len(value.customers) = 0
    THEN Ok("No customers found matching the given filters.")
    ELSE Ok("Found " \o Template(value.total) \o " customer(s):\n"
            \o Repeat("-", 90) \o "\n"
            \o PadEnd("ID", 12) \o PadEnd("Username", 28) \o PadEnd("Name", 22)
            \o PadEnd("Company", 18) \o "Status" \o "\n"
            \o Repeat("-", 90) \o "\n"
            \o Join([i \in 1..Len(value.customers) |-> CustomerRow(value.customers[i])],
                    "\n"))

get_customer_text(args, customer) ==
    IF customer \in {Null, Undefined}
    THEN Throw(NullRead(customer, "customerid"))
    ELSE Ok(Join(<<"Customer Details",
                   Repeat("-", 40),
                   "ID:       " \o Template(Prop(customer, "customerid")),
                   "Name:     " \o Template(Prop(customer, "name")),
                   "Email:    " \o Template(Prop(customer, "username")),
                   "Company:  " \o Template(Prop(customer, "company")),
                   "Address:  " \o Template(Nullish(Prop(customer, "address1"), Str(""))),
                   "City:     " \o Template(Prop(customer, "city")),
                   "State:    " \o Template(Prop(customer, "state")),
                   "Country:  " \o Template(Prop(customer, "country")),
                   "Phone:    "
                       \o (IF Truthy(Prop(customer, "phonecountrycode"))
                           THEN "+" \o String(Prop(customer, "phonecountrycode")) \o " "
                           ELSE "")
                       \o Template(Prop(customer, "phone")),
                   "Status:   " \o Template(Prop(customer, "customerstatus"))>>,
                 "\n"))

\* One row of the table of list_domains, the three cells being padded: the
\* first padEnd that throws ends the row
DomainCells(orderid, domainname, currentstatus, endtime) ==
    IF ~orderid.ok THEN orderid
    ELSE IF ~domainname.ok THEN domainname
    ELSE IF ~currentstatus.ok THEN currentstatus
    ELSE Ok(orderid.val \o domainname.val \o currentstatus.val \o epochToIso(endtime))

DomainRow(d) ==
    DomainCells(PadCell(Index(d, "orderid"), 14), PadCell(Index(d, "domainname"), 32),
                PadCell(Index(d, "currentstatus"), 14), Index(d, "endtime"))

\* domains.map(...).join('\n') on the rows: the first row that throws ends it
DomainRows(rows) ==
    IF \E i \in 1..Len(rows) : ~rows[i].ok
    THEN rows[CHOOSE i \in 1..Len(rows) : ~rows[i].ok /\ \A j \in 1..(i - 1) : rows[j].ok]
    ELSE Ok(Join([i \in 1..Len(rows) |-> rows[i].val], "\n"))

\* header + divider + columnHeader + divider + rows
DomainTable(total, rows) ==
    IF ~rows.ok THEN rows
    ELSE Ok("Found " \o Template(total) \o " domain(s):\n"
            \o Repeat("-", 90) \o "\n"
            \o PadEnd("Order ID", 14) \o PadEnd("Domain Name", 32)
            \o PadEnd("Status", 14) \o "Expiry Date" \o "\n"
            \o Repeat("-", 90) \o "\n"
            \o rows.val)

list_domains_text(args, value) ==
    IF Len(value.domains) = 0
    THEN Ok("No domains found matching the given filters.")
    ELSE DomainTable(value.total,
                     DomainRows([i \in 1..Len(value.domains) |-> DomainRow(value.domains[i])]))

\* [ns1, ns2, ns3, ns4].filter(Boolean).join(', ') || 'N/A'
Nameservers(ns) ==
    IF Join([i \in 1..Len(ns) |-> String(ns[i])], ", ") # ""
    THEN Join([i \in 1..Len(ns) |-> String(ns[i])], ", ")
    ELSE "N/A"

\* `${details.field ?? 'N/A'}`
OrNA(details, field) == Template(Nullish(Prop(details, field), Str("N/A")))

get_domain_text(args, details) ==
    IF details \in {Null, Undefined}
    THEN Throw(NullRead(details, "ns1"))
    ELSE Ok(Join(<<"Domain Details",
                   Repeat("-", 50),
                   "Name:          " \o Template(Prop(details, "domainname")),
                   "Order ID:      " \o Template(Prop(details, "orderid")),
                   "Status:        " \o Template(Prop(details, "currentstatus")),
                   "Created:       " \o epochToIso(Prop(details, "creationtime")),
                   "Expires:       " \o epochToIso(Prop(details, "endtime")),
                   "Nameservers:   "
                       \o Nameservers(SelectSeq(<<Prop(details, "ns1"), Prop(details, "ns2"),
                                                  Prop(details, "ns3"), Prop(details, "ns4")>>,
                                                Truthy)),
                   "Customer ID:   " \o Template(Prop(details, "customerid")),
                   "Auto-Renew:    " \o OrNA(details, "autorenew"),
                   "",
                   "Contacts",
                   Repeat("-", 50),
                   "Registrant:    " \o OrNA(details, "registrantcontact"),
                   "Admin:         " \o OrNA(details, "admincontact"),
                   "Tech:          " \o OrNA(details, "techcontact"),
                   "Billing:       " \o OrNA(details, "billingcontact")>>,
                 "\n"))

get_domain_order_id_text(args, orderId) ==
    Ok("Order ID for " \o args.domainName.str \o ": " \o Template(orderId))

\* return { content: [{ type: 'text', text }] }, or the catch block when
\* building the text threw
Finished(text) == IF text.ok THEN TextResult(text.val) ELSE Caught(text.err)

\* try { await call; text; return } catch (error) { ... }: a handler from
\* the settling of its API call on, text being what it builds of the value
\* returned
Try(call, text) ==
    [requests |-> call.requests,
     api |-> call.result,
     result |-> IF ~call.result.ok THEN Caught(call.result.err) ELSE Finished(text)]

\* Each handler from the settling of its API call on
list_dns_records_rest(args, call) == Try(call, list_dns_records_text(args, call.result.val))
list_all_dns_records_rest(args, call) == Try(call, list_all_dns_records_text(args, call.result.val))
add_dns_record_rest(args, call) == Try(call, add_dns_record_text(args, call.result.val))
update_dns_record_rest(args, call) == Try(call, update_dns_record_text(args, call.result.val))
delete_dns_record_rest(args, call) == Try(call, delete_dns_record_text(args, call.result.val))
activate_dns_rest(args, call) == Try(call, activate_dns_text(args, call.result.val))
list_customers_rest(args, call) == Try(call, list_customers_text(args, call.result.val))
get_customer_rest(args, call) == Try(call, get_customer_text(args, call.result.val))
list_domains_rest(args, call) == Try(call, list_domains_text(args, call.result.val))
get_domain_rest(args, call) == Try(call, get_domain_text(args, call.result.val))
get_domain_order_id_rest(args, call) == Try(call, get_domain_order_id_text(args, call.result.val))

\* The handlers

list_dns_records(c, args, world) ==
    list_dns_records_rest(args,
        Invoke(c, "searchRecords",
               searchRecords([domainName |-> args.domainName.str,
                              type |-> args.type.str,
                              noOfRecords |-> Undefined,
                              pageNo |-> args.pageNo,
                              host |-> args.host,
                              value |-> args.value]),
               world.net))

list_all_dns_records(c, args, world) ==
    list_all_dns_records_rest(args,
        RunAll(c, StartAll(args.domainName.str), world, <<>>))

add_dns_record(c, args, world) ==
    add_dns_record_rest(args,
        Invoke(c, "addRecord",
               addRecord(args.type.str,
                         [domainName |-> args.domainName.str,
                          host |-> args.host.str,
                          value |-> args.value.str,
                          ttl |-> args.ttl,
                          priority |-> args.priority,
                          port |-> args.port,
                          weight |-> args.weight]),
               world.net))

update_dns_record(c, args, world) ==
    update_dns_record_rest(args,
        Invoke(c, "updateRecord",
               updateRecord(args.type.str,
                            [domainName |-> args.domainName.str,
                             host |-> args.host.str,
                             currentValue |-> args.currentValue.str,
                             newValue |-> args.newValue.str,
                             ttl |-> args.ttl,
                             priority |-> args.priority,
                             port |-> args.port,
                             weight |-> args.weight]),
               world.net))

delete_dns_record(c, args, world) ==
    delete_dns_record_rest(args,
        Invoke(c, "deleteRecord",
               deleteRecord(args.type.str,
                            [domainName |-> args.domainName.str,
                             host |-> args.host.str,
                             value |-> args.value.str,
                             port |-> args.port,
                             weight |-> args.weight]),
               world.net))

activate_dns(c, args, world) ==
    activate_dns_rest(args,
        Invoke(c, "activateDns", activateDns(args.orderId.str), world.net))

list_customers(c, args, world) ==
    list_customers_rest(args,
        Invoke(c, "CustomerApi.search",
               CustomerApi_search([pageNo |-> args.pageNo,
                                   noOfRecords |-> args.noOfRecords,
                                   customerId |-> Undefined,
                                   username |-> args.username,
                                   name |-> args.name,
                                   company |-> args.company,
                                   city |-> Undefined,
                                   state |-> Undefined,
                                   status |-> args.status]),
               world.net))

\* get_customer looking up by customerId when both identifiers are given
get_customer_IdFirst(c, args, world) ==
    IF args.customerId = Undefined /\ args.username = Undefined
    THEN [requests |-> <<>>,
          api |-> NoCall,
          result |-> ErrorResult(
                         "Error: At least one of customerId or username must be provided.")]
    ELSE get_customer_rest(args,
             IF args.customerId = Undefined
             THEN Invoke(c, "getByUsername", getByUsername(args.username.str), world.net)
             ELSE Invoke(c, "getById", getById(Number(args.customerId.str)), world.net))

get_customer(c, args, world) ==
    IF args.customerId = Undefined /\ args.username = Undefined
    THEN [requests |-> <<>>,
          api |-> NoCall,
          result |-> ErrorResult(
                         "Error: At least one of customerId or username must be provided.")]
    ELSE get_customer_rest(args,
             IF args.username # Undefined
             THEN Invoke(c, "getByUsername", getByUsername(args.username.str), world.net)
             ELSE Invoke(c, "getById", getById(Number(args.customerId.str)), world.net))

list_domains(c, args, world) ==
    list_domains_rest(args,
        Invoke(c, "DomainApi.search",
               DomainApi_search([pageNo |-> args.pageNo,
                                 noOfRecords |-> args.noOfRecords,
                                 customerId |-> IF args.customerId # Undefined
                                                THEN Number(args.customerId.str)
                                                ELSE Undefined,
                                 domainName |-> args.domainName,
                                 status |-> args.status]),
               world.net))

get_domain(c, args, world) ==
    IF args.orderId = Undefined /\ args.domainName = Undefined
    THEN [requests |-> <<>>,
          api |-> NoCall,
          result |-> ErrorResult(
                         "Error: At least one of orderId or domainName must be provided.")]
    ELSE get_domain_rest(args,
             IF args.orderId # Undefined
             THEN Invoke(c, "getDetails", getDetails(args.orderId.str), world.net)
             ELSE Invoke(c, "getDetailsByName", getDetailsByName(args.domainName.str),
                         world.net))

get_domain_order_id(c, args, world) ==
    get_domain_order_id_rest(args,
        Invoke(c, "getOrderId", getOrderId(args.domainName.str), world.net))

-----------------------------------------------------------------------------
(* server/index.ts: main(), statement by statement, and the tool calls the *)
(* connected server handles.  input is process.env.  A tool call is        *)
(* handled from its arrival to the result of its handler in one step, the  *)
(* network's part being an input; sent and outcome are those of the call   *)
(* handled last, so that a behaviour is a sequence of calls of any length. *)

\* main() with the connection made before the tools are registered
Statement_ConnectFirst(pc) ==
    <<"credentials", "new LogicBoxesClient", "new McpServer", "connect",
      "registerDnsTools", "registerCustomerTools", "registerDomainTools",
      "log", "end">>[pc]

\* The statements of main() in order
Statement(pc) ==
    <<"credentials", "new LogicBoxesClient", "new McpServer", "registerDnsTools",
      "registerCustomerTools", "registerDomainTools", "connect", "log", "end">>[pc]

\* process.env: each variable unset, empty or set
Envs ==
    [LOGICBOXES_AUTH_USERID : {Undefined, Str(""), Str("123456")},
     LOGICBOXES_API_KEY : {Undefined, Str(""), Str("secret")},
     LOGICBOXES_ENV : {Undefined, Str("test"), Str("TEST"), Str("production")}]

\* The process before main() runs
Started ==
    [pc |-> 1, created |-> FALSE, tools |-> <<>>, connected |-> FALSE,
     exitCode |-> Undefined, stderr |-> <<>>]

InitServer ==
    /\ client = Undefined
    /\ sent = <<>>
    /\ outcome = NoOutcome
    /\ calls = <<>>
    /\ made = 0
    /\ input \in Envs
    /\ server = Started

\* main() is at this statement
At(statement) ==
    /\ server.pc \in 1..9
    /\ server.exitCode = Undefined
    /\ Statement(server.pc) = statement

\* process.exit(1) after these lines on stderr
Exit(lines) ==
    [server EXCEPT !.pc = 9, !.exitCode = Num(1), !.stderr = @ \o lines]

\* The credential test reading only LOGICBOXES_AUTH_USERID
CheckCredentials_OnlyUserId ==
    /\ At("credentials")
    /\ server' = IF ~Truthy(input.LOGICBOXES_AUTH_USERID)
                 THEN Exit(<<"Missing LOGICBOXES_AUTH_USERID or LOGICBOXES_API_KEY in environment",
                             "Create a .env file with your LogicBoxes API credentials">>)
                 ELSE [server EXCEPT !.pc = @ + 1]
    /\ UNCHANGED <<client, sent, outcome, calls, made, input>>

\* if (!authUserId || !apiKey) { ...; process.exit(1) }
CheckCredentials ==
    /\ At("credentials")
    /\ server' = IF \/ ~Truthy(input.LOGICBOXES_AUTH_USERID)
                    \/ ~Truthy(input.LOGICBOXES_API_KEY)
                 THEN Exit(<<"Missing LOGICBOXES_AUTH_USERID or LOGICBOXES_API_KEY in environment",
                             "Create a .env file with your LogicBoxes API credentials">>)
                 ELSE [server EXCEPT !.pc = @ + 1]
    /\ UNCHANGED <<client, sent, outcome, calls, made, input>>

\* const baseUrl = env === 'test' ? TEST_BASE_URL : undefined;
\* const client = new LogicBoxesClient({ authUserId, apiKey, baseUrl })
CreateClient ==
    /\ At("new LogicBoxesClient")
    /\ client' = NewClient([authUserId |-> input.LOGICBOXES_AUTH_USERID.str,
                            apiKey |-> input.LOGICBOXES_API_KEY.str,
                            baseUrl |-> IF input.LOGICBOXES_ENV = Str("test")
                                        THEN Str(TEST_BASE_URL) ELSE Undefined,
                            timeout |-> Undefined])
    /\ server' = [server EXCEPT !.pc = @ + 1]
    /\ UNCHANGED <<sent, outcome, calls, made, input>>

\* const server = new McpServer(...)
CreateServer ==
    /\ At("new McpServer")
    /\ server' = [server EXCEPT !.pc = @ + 1, !.created = TRUE]
    /\ UNCHANGED <<client, sent, outcome, calls, made, input>>

\* The names registered so far
Registered == {server.tools[i].name : i \in 1..Len(server.tools)}

\* One of the register functions: a server.tool() call for each name, in
\* order.  server.tool() throws for a name already registered, main()
\* rejects and the process exits.
Register(by, names) ==
    /\ At(by)
    /\ server' = IF \/ \E i \in 1..Len(names) : names[i] \in Registered
                    \/ \E i, j \in 1..Len(names) : i # j /\ names[i] = names[j]
                 THEN Exit(<<"Fatal error:">>)
                 ELSE [server EXCEPT !.pc = @ + 1,
                                     !.tools = @ \o [i \in 1..Len(names) |->
                                                        [name |-> names[i], by |-> by]]]
    /\ UNCHANGED <<client, sent, outcome, calls, made, input>>

RegisterDnsTools ==
    /\ server.created
    /\ Register("registerDnsTools", dnsTools)

RegisterCustomerTools ==
    /\ server.created
    /\ Register("registerCustomerTools", customerTools)

RegisterDomainTools ==
    /\ server.created
    /\ Register("registerDomainTools", domainTools)

\* await server.connect(transport): from here on requests are read
Connect ==
    /\ At("connect")
    /\ server' = [server EXCEPT !.pc = @ + 1, !.connected = TRUE]
    /\ UNCHANGED <<client, sent, outcome, calls, made, input>>

\* console.error('LogicBoxes MCP server started')
LogStarted ==
    /\ At("log")
    /\ server' = [server EXCEPT !.pc = @ + 1,
                                !.stderr = Append(@, "LogicBoxes MCP server started")]
    /\ UNCHANGED <<client, sent, outcome, calls, made, input>>

\* A tools/call request for a name: the tool is looked up, the arguments go
\* through its schema, and the handler runs on what the schema gives
\* What the caller of the tool gets, the handler having run
Response(args, done) ==
    [kind |-> "handled", parsed |-> args, requests |-> done.requests,
     api |-> done.api, result |-> done.result]

\* The handler's result for the arguments the schema accepted
Dispatch(parsed, handled) ==
    IF ~parsed.ok THEN [kind |-> "invalid arguments", requests |-> <<>>]
    ELSE Response(parsed.val, handled)

\* What the schema of the tool makes of the arguments
Parsed(name, raw) == parseArgs(toolSchema(name), raw).val

\* The call of a tool: unknown when none is registered under the name, refused
\* when the schema rejects the arguments, handled otherwise
callTool(name, raw, handled) ==
    IF name \notin Registered
    THEN [kind |-> "unknown tool", requests |-> <<>>]
    ELSE Dispatch(parseArgs(toolSchema(name), raw), handled)

\* The call is answered with response
Answered(name, raw, world, response) ==
    /\ outcome' = [op |-> name, args |-> <<raw>>, world |-> world, result |-> response]
    /\ sent' = response.requests

\* The transport is connected and the process has not exited: calls arrive
Serving == server.connected /\ server.exitCode = Undefined

\* A tool call arrives and is answered; handled is what the handler registered
\* under the name makes of the parsed arguments
ToolCall(name, raw, world, handled) ==
    /\ Answered(name, raw, world, callTool(name, raw, handled))
    /\ UNCHANGED <<server, client, calls, made, input>>

\* What the network does to every request of a call, and a zone served
Net(net) == [net |-> net, zone |-> Undefined]
Zone(zone) == [net |-> Undefined, zone |-> zone]

\* A response body of these entries with the counts the API sends
Page(entries) ==
    Obj(<< <<"recsonpage", Str(ToString(Len(entries)))>>,
           <<"recsindb", Str(ToString(Len(entries)))>> >>
        \o [i \in 1..Len(entries) |-> <<ToString(i), entries[i]>>])

\* The ways a request fails: an API error, a timeout, an HTTP error
ToolFailures == {Net(NetApiError), Net(NetAbort), Net(NetHttp500)}

\* {"status": "Success"}
NetDone == NetJson(Obj(<< <<"status", Str("Success")>> >>))

\* The arguments of the calls: valid ones and ones the schema rejects
RawTypes == {Str(mutableRecordTypes[i]) : i \in 1..Len(mutableRecordTypes)} \cup {Str("SOA")}
RawTtls == {Undefined, Num(7199), Num(7200)}
RawExtras(type) ==
    IF type = Str("SRV") THEN Extras
    ELSE {x \in Extras : x.priority = Undefined <=> type # Str("MX")}

\* The API refuses a call, which is tried with the default arguments only
Refused(given) == IF given = Undefined THEN {Net(NetApiError)} ELSE {}

CallListDnsRecords ==
    \E type \in {Str("A"), Str("SOA"), Str("PTR")}, pageNo \in {Undefined, Num(2)},
       world \in ToolFailures \cup {Net(NetSuccess), Net(NetJson(Page(<<>>))), Net(NetJson(Null))} :
        /\ Serving
        /\ pageNo # Undefined => world = Net(NetSuccess)
        /\ LET raw == [domainName |-> Str("example.com"), host |-> Str("www"),
                      pageNo |-> pageNo, type |-> type, value |-> Undefined]
           IN  ToolCall("list_dns_records", raw, world,
                        list_dns_records(client, Parsed("list_dns_records", raw), world))

CallListAllDnsRecords ==
    \E domainName \in {Str("example.com")},
       world \in ToolFailures
                 \cup {Zone([t \in DnsRecordTypes |->
                                IF t = "A" THEN a ELSE IF t = "MX" THEN m
                                ELSE IF t = "SOA" THEN 1 ELSE 0]) : a \in {0, 1}, m \in {0, 2}}
                 \cup {Zone([t \in DnsRecordTypes |-> 0])} :
        /\ Serving
        /\ LET raw == [domainName |-> domainName]
           IN  ToolCall("list_all_dns_records", raw, world,
                        list_all_dns_records(client, Parsed("list_all_dns_records", raw), world))

CallAddDnsRecord ==
    \E type \in RawTypes, ttl \in RawTtls :
      \E x \in RawExtras(type), world \in {Net(NetDone)} \cup Refused(ttl) :
        /\ Serving
        /\ LET raw == [domainName |-> Str("example.com"), host |-> Str("www"),
                      port |-> x.port, priority |-> x.priority, ttl |-> ttl,
                      type |-> type, value |-> Str("192.0.2.1"), weight |-> x.weight]
           IN  ToolCall("add_dns_record", raw, world,
                        add_dns_record(client, Parsed("add_dns_record", raw), world))

CallUpdateDnsRecord ==
    \E type \in RawTypes, ttl \in RawTtls :
      \E x \in RawExtras(type), world \in {Net(NetDone)} \cup Refused(ttl) :
        /\ Serving
        /\ LET raw == [currentValue |-> Str("192.0.2.1"),
                      domainName |-> Str("example.com"), host |-> Str("www"),
                      newValue |-> Str("192.0.2.2"), port |-> x.port,
                      priority |-> x.priority, ttl |-> ttl, type |-> type,
                      weight |-> x.weight]
           IN  ToolCall("update_dns_record", raw, world,
                        update_dns_record(client, Parsed("update_dns_record", raw), world))

CallDeleteDnsRecord ==
    \E type \in RawTypes, world \in {Net(NetDone), Net(NetApiError)} :
      \E x \in RawExtras(type) :
        /\ Serving
        /\ LET raw == [domainName |-> Str("example.com"), host |-> Str("www"),
                      port |-> x.port, type |-> type, value |-> Str("192.0.2.1"),
                      weight |-> x.weight]
           IN  ToolCall("delete_dns_record", raw, world,
                        delete_dns_record(client, Parsed("delete_dns_record", raw), world))

CallActivateDns ==
    \E orderId \in {Str("100200"), Num(100200)}, world \in ToolFailures \cup {Net(NetDone)} :
        /\ Serving
        /\ LET raw == [orderId |-> orderId]
           IN  ToolCall("activate_dns", raw, world,
                        activate_dns(client, Parsed("activate_dns", raw), world))

CallListCustomers ==
    \E noOfRecords \in {Undefined, Num(10)}, username \in {Undefined},
       world \in ToolFailures \cup {Net(NetJson(Page(<<>>)))}
                 \cup {Net(NetJson(Page(<<entry>>))) : entry \in CustomerEntries} :
        /\ Serving
        /\ LET raw == [company |-> Undefined, name |-> Undefined,
                      noOfRecords |-> noOfRecords, pageNo |-> Undefined,
                      status |-> Undefined, username |-> username]
           IN  ToolCall("list_customers", raw, world,
                        list_customers(client, Parsed("list_customers", raw), world))

\* The body of customers/details.json
CustomerDetails ==
    Obj(<< <<"customerid", Str("12345678")>>, <<"username", Str("user@example.com")>>,
           <<"name", Str("Ann Lee")>>, <<"company", Str("Example Ltd")>>,
           <<"city", Str("Leeds")>>, <<"state", Str("West Yorkshire")>>,
           <<"country", Str("GB")>>, <<"phonecountrycode", Str("44")>>,
           <<"phone", Str("1130000000")>>, <<"customerstatus", Str("Active")>> >>)

CallGetCustomer ==
    \E username \in {Undefined, Str("user@example.com")},
       customerId \in {Undefined, Str("12345678"), Str("abc")},
       world \in ToolFailures \cup {Net(NetJson(CustomerDetails)), Net(NetJson(Null))} :
        /\ Serving
        /\ LET raw == [customerId |-> customerId, username |-> username]
           IN  ToolCall("get_customer", raw, world,
                        get_customer(client, Parsed("get_customer", raw), world))

\* An entry of domains/search.json whose order id is a JSON number
NumericOrder ==
    Obj(<< <<"orders.orderid", Num(100200)>>,
           <<"entity.description", Str("example.com")>>,
           <<"entity.currentstatus", Str("Active")>>,
           <<"orders.endtime", Str("1893456000")>> >>)

CallListDomains ==
    \E noOfRecords \in {Undefined, Num(9), Num(10), Num(501)},
       customerId \in {Undefined, Str("12345678")},
       world \in ToolFailures \cup {Net(NetJson(Page(<<>>))), Net(NetJson(Page(<<NumericOrder>>)))}
                 \cup {Net(NetJson(Page(<<entry>>))) : entry \in DomainEntries} :
        /\ Serving
        /\ noOfRecords # Undefined => world = Net(NetJson(Page(<<>>)))
        /\ LET raw == [customerId |-> customerId, domainName |-> Undefined,
                      noOfRecords |-> noOfRecords, pageNo |-> Undefined,
                      status |-> Undefined]
           IN  ToolCall("list_domains", raw, world,
                        list_domains(client, Parsed("list_domains", raw), world))

\* The body of domains/details.json
DomainDetails ==
    Obj(<< <<"domainname", Str("example.com")>>, <<"orderid", Str("100200")>>,
           <<"currentstatus", Str("Active")>>, <<"creationtime", Str("1577836800")>>,
           <<"endtime", Str("1893456000")>>, <<"ns1", Str("ns1.example.net")>>,
           <<"ns2", Str("ns2.example.net")>>, <<"customerid", Str("12345678")>>,
           <<"registrantcontact", Str("555")>> >>)

CallGetDomain ==
    \E orderId \in {Undefined, Str("100200")},
       domainName \in {Undefined, Str("example.com")},
       world \in ToolFailures \cup {Net(NetJson(DomainDetails)), Net(NetJson(Null)),
                                    Net(NetJson(Obj(<<>>)))} :
        /\ Serving
        /\ LET raw == [domainName |-> domainName, orderId |-> orderId]
           IN  ToolCall("get_domain", raw, world,
                        get_domain(client, Parsed("get_domain", raw), world))

CallGetDomainOrderId ==
    \E domainName \in {Str("example.com")},
       world \in ToolFailures \cup {Net(NetJson(Num(100200))), Net(NetJson(Str("100200")))} :
        /\ Serving
        /\ LET raw == [domainName |-> domainName]
           IN  ToolCall("get_domain_order_id", raw, world,
                        get_domain_order_id(client, Parsed("get_domain_order_id", raw), world))

NextServer ==
    \/ CheckCredentials
    \/ CreateClient
    \/ CreateServer
    \/ RegisterDnsTools
    \/ RegisterCustomerTools
    \/ RegisterDomainTools
    \/ Connect
    \/ LogStarted
    \/ CallListDnsRecords
    \/ CallListAllDnsRecords
    \/ CallAddDnsRecord
    \/ CallUpdateDnsRecord
    \/ CallDeleteDnsRecord
    \/ CallActivateDns
    \/ CallListCustomers
    \/ CallGetCustomer
    \/ CallListDomains
    \/ CallGetDomain
    \/ CallGetDomainOrderId

SpecServer == InitServer /\ [][NextServer]_vars

-----------------------------------------------------------------------------
(* Properties of the tools (SpecServer) *)

\* The eleven tool names
ToolNames ==
    {"list_dns_records", "list_all_dns_records", "add_dns_record", "update_dns_record",
     "delete_dns_record", "activate_dns", "list_customers", "get_customer",
     "list_domains", "get_domain", "get_domain_order_id"}

\* The last tool call reached its handler
HandlerRan == outcome.op \in ToolNames /\ outcome.result.kind = "handled"

\* The API call of the last tool call threw (validation included), returned
ApiThrew == HandlerRan /\ outcome.result.api # NoCall /\ ~outcome.result.api.ok
ApiReturned == HandlerRan /\ outcome.result.api # NoCall /\ outcome.result.api.ok

\* The result is an object with one text content
IsTextResult(r) ==
    /\ "content" \in DOMAIN r
    /\ Len(r.content) = 1
    /\ r.content[1].type = "text"

SetsIsError(r) == "isError" \in DOMAIN r

C18_FailingCall ==
    /\ outcome.op = "list_domains"
    /\ ApiReturned
    /\ SetsIsError(outcome.result.result)

\* The tools that add, update and delete records
MutationTools == {"add_dns_record", "update_dns_record", "delete_dns_record"}

\* The ttl of request i as a number, when it carries one
TtlOf(i) == ParseInt(Get(QueryOf(i), "ttl"))

\* C19: whatever tool calls are made, no request is issued to an SOA
\* endpoint, none comes from updateSoa, and none carries a ttl below 7200;
\* a call of add_dns_record, update_dns_record or delete_dns_record reaches
\* its handler only with a type among A, AAAA, CNAME, MX, TXT, NS and SRV,
\* and add and update only with a ttl of at least 7200, which is 14400 when
\* the call gives none; a call the schema rejects issues no request.
C19_ToolMutationsSafe ==
    /\ \A i \in 1..Len(sent) :
        /\ ~Includes(ToLowerCase(HrefOf(i)), "soa")
        /\ sent[i].op # "updateSoa"
        /\ HasKey(QueryOf(i), "ttl") => TtlOf(i) # NaN /\ TtlOf(i).num >= 7200
    /\ (outcome.op \in ToolNames /\ ~HandlerRan) => sent = <<>>
    /\ (outcome.op \in MutationTools /\ HandlerRan) =>
        /\ outcome.result.parsed.type
               \in {Str(t) : t \in {"A", "AAAA", "CNAME", "MX", "TXT", "NS", "SRV"}}
        /\ outcome.op # "delete_dns_record" =>
            /\ outcome.result.parsed.ttl.num >= 7200
            /\ outcome.args[1].ttl = Undefined => outcome.result.parsed.ttl = Num(14400)
            /\ outcome.args[1].ttl # Undefined =>
                   outcome.result.parsed.ttl = outcome.args[1].ttl

\* C19's case: update_dns_record called without a ttl for an SRV record; the
\* request goes to the SRV endpoint with ttl 14400.
C19_Witness ==
    /\ outcome.op = "update_dns_record"
    /\ HandlerRan
    /\ outcome.args[1].ttl = Undefined
    /\ outcome.args[1].type = Str("SRV")
    /\ Len(sent) = 1
    /\ Includes(HrefOf(1), "dns/manage/update-srv-record.json")
    /\ Get(QueryOf(1), "ttl") = "14400"

\* C20: once the server is connected it holds exactly 11 tools of pairwise
\* distinct names, 6 registered by registerDnsTools, 2 by
\* registerCustomerTools and 3 by registerDomainTools, so that no call of
\* one of them finds it unregistered.
C20_RegisteredBeforeConnect ==
    /\ server.connected =>
        /\ Len(server.tools) = 11
        /\ Registered = ToolNames
        /\ \A i, j \in 1..Len(server.tools) :
               server.tools[i].name = server.tools[j].name => i = j
        /\ Cardinality({i \in 1..Len(server.tools) :
                            server.tools[i].by = "registerDnsTools"}) = 6
        /\ Cardinality({i \in 1..Len(server.tools) :
                            server.tools[i].by = "registerCustomerTools"}) = 2
        /\ Cardinality({i \in 1..Len(server.tools) :
                            server.tools[i].by = "registerDomainTools"}) = 3
    /\ outcome.op \in ToolNames => outcome.result.kind # "unknown tool"

\* C20's case: the tool registered last is called before main() has logged
\* that the server started, and its handler runs.
C20_Witness ==
    /\ server.connected
    /\ Statement(server.pc) = "log"
    /\ outcome.op = "get_domain_order_id"
    /\ HandlerRan

(***************************************************************************)
(* Startup: credentials and base URL                                       *)
(***************************************************************************)

\* A credential of the environment is missing or empty
CredentialsMissing ==
    \/ input.LOGICBOXES_AUTH_USERID \in {Undefined, Str("")}
    \/ input.LOGICBOXES_API_KEY \in {Undefined, Str("")}

\* s begins with prefix
StartsWith(s, prefix) ==
    Len(s) >= Len(prefix) /\ SubSeq(s, 1, Len(prefix)) = prefix

\* C21: with LOGICBOXES_AUTH_USERID or LOGICBOXES_API_KEY missing or empty,
\* main() gets past its first statement only by exiting with code 1, and no
\* client, server, tool, connection or request ever exists; otherwise the
\* client's base URL is the test URL exactly when LOGICBOXES_ENV is 'test'
\* and the production URL for every other value, and every request goes to it.
C21_CredentialCheck ==
    /\ CredentialsMissing =>
        /\ server.pc > 1 => server.exitCode = Num(1)
        /\ client = Undefined
        /\ ~server.created
        /\ server.tools = <<>>
        /\ ~server.connected
        /\ sent = <<>>
    /\ (~CredentialsMissing /\ server.pc > 2) =>
        /\ server.exitCode = Undefined
        /\ client # Undefined
        /\ client.baseUrl = IF input.LOGICBOXES_ENV = Str("test")
                            THEN "https://test.httpapi.com/api/"
                            ELSE "https://httpapi.com/api/"
        /\ \A i \in 1..Len(sent) : StartsWith(HrefOf(i), client.baseUrl)

\* C21's case: the user id is set and the API key is the empty string; the
\* process has exited with code 1 after its two lines on stderr.
C21_Witness ==
    /\ input.LOGICBOXES_AUTH_USERID = Str("123456")
    /\ input.LOGICBOXES_API_KEY = Str("")
    /\ server.exitCode = Num(1)
    /\ Len(server.stderr) = 2
    /\ client = Undefined

------------------------------------------------------------------------------
(* The query of a request: a caller hands params maps to get and post and    *)
(* filters to the search methods of the three facades, one call after the   *)
(* other; every response is a success.  calls keeps, for each request, what *)
(* the caller gave and the params map that reached the client.              *)

\* The number of calls a behaviour makes
MaxQueries == 2

\* The params maps handed to get and post: none, an empty one, ones with
\* undefined values, ones that name an auth key with and without a value
QueryMaps ==
    {Undefined,
     Obj(<<>>),
     Obj(<< <<"no-of-records", Num(10)>>, <<"status", Undefined>> >>),
     Obj(<< <<"customer-id", Num(7)>>, <<"status", Str("Active")>> >>),
     Obj(<< <<"api-key", Undefined>>, <<"page-no", Num(1)>> >>),
     Obj(<< <<"host", Undefined>>, <<"value", Undefined>> >>),
     Obj(<< <<"page-no", Num(1)>>, <<"api-key", Str("other-key")>> >>)}

\* The filters of a customer or domain search: no params, none given, the
\* page given (a page size of 0 included), every filter given
SearchFilters ==
    {Undefined,
     NoFilter,
     [NoFilter EXCEPT !.noOfRecords = Num(10), !.pageNo = Num(2)],
     [NoFilter EXCEPT !.noOfRecords = Num(0), !.username = Str("user@example.com")],
     [noOfRecords |-> Num(100), pageNo |-> Num(3), customerId |-> Num(7),
      username |-> Str("user@example.com"), name |-> Str("Jo"),
      company |-> Str("Example"), city |-> Str("Paris"), state |-> Str("IDF"),
      status |-> Str("Active"), domainName |-> Str("example.com")]}

\* The params of searchRecords: host, value and the page each given or not
DnsFilters ==
    {[domainName |-> "example.com", type |-> "A", noOfRecords |-> n,
      pageNo |-> p, host |-> h, value |-> v] :
        n \in {Undefined, Num(10)}, p \in {Undefined, Num(2)},
        h \in {Undefined, Str("www")}, v \in {Undefined, Str("192.0.2.1")}}

InitQueries ==
    /\ client = NewClient(DefaultConfig)
    /\ sent = <<>>
    /\ outcome = NoOutcome
    /\ calls = <<>>
    /\ made = 0
    /\ input = Undefined
    /\ server = NoServer

\* One call: r is what the method hands to the client
Query(op, given, r) ==
    /\ made < MaxQueries
    /\ LET a == IF r.method = "GET" THEN get(client, r.path, r.params)
                ELSE post(client, r.path, r.params)
       IN  sent' = Append(sent, [op |-> op, req |-> Fetched(a)])
    /\ calls' = Append(calls, [op |-> op, given |-> <<given>>, map |-> r.params])
    /\ made' = made + 1
    /\ UNCHANGED <<server, client, outcome, input>>

QueryGet ==
    \E params \in QueryMaps :
        /\ made < MaxQueries
        /\ Query("get", params,
                 [method |-> "GET", path |-> "domains/search.json", params |-> params])

QueryPost ==
    \E params \in QueryMaps :
        /\ made < MaxQueries
        /\ Query("post", params,
                 [method |-> "POST", path |-> "dns/activate.xml", params |-> params])

QueryCustomers ==
    \E params \in SearchFilters :
        /\ made < MaxQueries
        /\ Query("CustomerApi.search", params, CustomerApi_search(params).val)

QueryDomains ==
    \E params \in SearchFilters :
        /\ made < MaxQueries
        /\ Query("DomainApi.search", params, DomainApi_search(params).val)

QueryDnsRecords ==
    \E params \in DnsFilters :
        /\ made < MaxQueries
        /\ Query("searchRecords", params, searchRecords(params).val)

NextQueries ==
    \/ QueryGet
    \/ QueryPost
    \/ QueryCustomers
    \/ QueryDomains
    \/ QueryDnsRecords

SpecQueries == InitQueries /\ [][NextQueries]_vars

\* The keys of the query of request i
QueryKeys(i) == {QueryOf(i)[k][1] : k \in 1..Len(QueryOf(i))}

\* The keys of a params map whose value is not undefined
DefinedKeys(map) ==
    {KeysOf(map)[k] : k \in {j \in 1..Len(KeysOf(map)) : Prop(map, KeysOf(map)[j]) # Undefined}}

\* Each optional filter: the field of the caller's params and its query key
OptionalFilters ==
    {<<"customerId", "customer-id">>, <<"domainName", "domain-name">>,
     <<"status", "status">>, <<"username", "username">>, <<"name", "name">>,
     <<"company", "company">>, <<"city", "city">>, <<"state", "state">>,
     <<"host", "host">>, <<"value", "value">>}

\* The optional filters each search method reads
FiltersOf(op) ==
    IF op = "CustomerApi.search"
    THEN {f \in OptionalFilters :
              f[1] \in {"customerId", "username", "name", "company", "city", "state", "status"}}
    ELSE IF op = "DomainApi.search"
    THEN {f \in OptionalFilters : f[1] \in {"customerId", "domainName", "status"}}
    ELSE IF op = "searchRecords"
    THEN {f \in OptionalFilters : f[1] \in {"host", "value"}}
    ELSE {}

\* What the caller of request i gave
GivenOf(i) == calls[i].given[1]

\* The caller of request i gave no such filter (domainName is not optional
\* in searchRecords)
Omitted(i, field) ==
    IF GivenOf(i) = Undefined THEN TRUE
    ELSE IF field \notin DOMAIN GivenOf(i) THEN TRUE
    ELSE IF calls[i].op = "searchRecords" /\ field = "domainName" THEN FALSE
    ELSE GivenOf(i)[field] = Undefined

\* C22: the query of every request holds a key exactly when it is an auth
\* key or the params map handed to get or post has it with a value other
\* than undefined, each key once and each such value in its string form; a
\* search request holds the key of an optional filter exactly when the caller
\* gave the filter, and never the key of a filter the caller omitted.
C22_UndefinedSkipped ==
    \A i \in DOMAIN sent :
        /\ QueryKeys(i) = {"auth-userid", "api-key"} \cup DefinedKeys(calls[i].map)
        /\ Len(QueryOf(i)) = Cardinality(QueryKeys(i))
        /\ \A key \in DefinedKeys(calls[i].map) :
               Get(QueryOf(i), key) = String(Prop(calls[i].map, key))
        /\ \A f \in FiltersOf(calls[i].op) :
               HasKey(QueryOf(i), f[2]) <=> Opt(GivenOf(i), f[1]) # Undefined
        /\ calls[i].op \in {"CustomerApi.search", "DomainApi.search", "searchRecords"} =>
               \A f \in OptionalFilters : Omitted(i, f[1]) => ~HasKey(QueryOf(i), f[2])

\* C22's case: a customer search given only a username and a page size: the
\* request carries the two auth keys, the page and the username.
C22_Witness ==
    \E i \in DOMAIN sent :
        /\ calls[i].op = "CustomerApi.search"
        /\ GivenOf(i) # Undefined
        /\ GivenOf(i).username = Str("user@example.com")
        /\ GivenOf(i).status = Undefined
        /\ QueryKeys(i) = {"auth-userid", "api-key", "no-of-records", "page-no", "username"}

\* The value request i carries under key, as a string
Sends(i, key, value) == HasKey(QueryOf(i), key) /\ Get(QueryOf(i), key) = value

\* C23: a customer or domain search without noOfRecords requests
\* no-of-records = 25 and without pageNo page-no = 1; searchRecords requests
\* 50 and 1; a value the caller gives, 0 included, is sent as it is.
C23_SearchDefaults ==
    \A i \in DOMAIN sent :
        LET size == Opt(GivenOf(i), "noOfRecords")
            page == Opt(GivenOf(i), "pageNo")
        IN  /\ calls[i].op \in {"CustomerApi.search", "DomainApi.search"} =>
                /\ Sends(i, "no-of-records", IF size = Undefined THEN "25" ELSE String(size))
                /\ Sends(i, "page-no", IF page = Undefined THEN "1" ELSE String(page))
            /\ calls[i].op = "searchRecords" =>
                /\ Sends(i, "no-of-records", IF size = Undefined THEN "50" ELSE String(size))
                /\ Sends(i, "page-no", IF page = Undefined THEN "1" ELSE String(page))

\* C23's case: a customer search with a page size of 0 and no page number
\* requests no-of-records = 0 and page-no = 1.
C23_Witness ==
    \E i \in DOMAIN sent :
        /\ calls[i].op = "CustomerApi.search"
        /\ Opt(GivenOf(i), "noOfRecords") = Num(0)
        /\ Opt(GivenOf(i), "pageNo") = Undefined
        /\ Sends(i, "no-of-records", "0")
        /\ Sends(i, "page-no", "1")

------------------------------------------------------------------------------
(* scripts/test-dns.ts: the DNS CRUD test script.  server is the script's    *)
(* process (the test about to run, the counts of passed and failed tests,   *)
(* the exit code), input the test records the remote zone holds, calls the  *)
(* log of the tests run.  The remote answers each request, refuses it with  *)
(* an API error, or the request fails on the network; only an answered      *)
(* mutation changes the zone.                                               *)

TEST_DOMAIN == "example.com"
TEST_HOST == "_test-logicboxes-mcp"
TEST_VALUE == "v=test logicboxes-mcp-1"
UPDATED_VALUE == "v=test logicboxes-mcp-updated-1"

\* What becomes of a request
Answers == {"ok", "api error", "network error"}

InitScript ==
    /\ client = NewClient(DefaultConfig)
    /\ sent = <<>>
    /\ outcome = NoOutcome
    /\ calls = <<>>
    /\ made = 0
    /\ input = {}
    /\ server = [pc |-> 1, passed |-> 0, failed |-> 0, exitCode |-> Undefined]

\* pass(testNum, name) or fail(testNum, name, error), and on to the next test
Verdict(test, answer, passes) ==
    /\ calls' = Append(calls, [test |-> test, answer |-> answer, passed |-> passes])
    /\ server' = [server EXCEPT !.pc = @ + 1,
                                !.passed = IF passes THEN @ + 1 ELSE @,
                                !.failed = IF passes THEN @ ELSE @ + 1]

\* One test: the call r of the facade puts its request on the wire unless
\* its validation throws; the remote's answer leaves the zone as zone
ScriptTest(test, op, r, answer, zone, passes) ==
    /\ server.pc = test
    /\ IF r.ok
       THEN /\ sent' = Append(sent, [op |-> op,
                                     req |-> Fetched(IF r.val.method = "GET"
                                                     THEN get(client, r.val.path, r.val.params)
                                                     ELSE post(client, r.val.path, r.val.params))])
            /\ input' = zone
            /\ Verdict(test, answer, passes)
       ELSE /\ sent' = sent
            /\ input' = input
            /\ Verdict(test, "not sent", FALSE)
    /\ UNCHANGED <<client, outcome, made>>

\* The params of searchRecords({ domainName: TEST_DOMAIN, type })
ScriptSearchParams(type) ==
    [domainName |-> TEST_DOMAIN, type |-> type, noOfRecords |-> Undefined,
     pageNo |-> Undefined, host |-> Undefined, value |-> Undefined]

\* Test 1: search existing records
ScriptSearch ==
    \E answer \in Answers :
        /\ server.pc = 1
        /\ ScriptTest(1, "searchRecords", searchRecords(ScriptSearchParams("A")),
                      answer, input, answer = "ok")

\* Test 2: add the TXT record
ScriptAdd ==
    \E answer \in Answers :
        /\ server.pc = 2
        /\ ScriptTest(2, "addRecord",
                      addRecord("TXT", [domainName |-> TEST_DOMAIN, host |-> TEST_HOST,
                                        value |-> TEST_VALUE, ttl |-> Num(7200),
                                        priority |-> Undefined, port |-> Undefined,
                                        weight |-> Undefined]),
                      answer,
                      IF answer = "ok" THEN input \cup {TEST_VALUE} ELSE input,
                      answer = "ok")

\* Test 3: the record is found by its host
ScriptVerifyAdded ==
    \E answer \in Answers :
        /\ server.pc = 3
        /\ ScriptTest(3, "searchRecords", searchRecords(ScriptSearchParams("TXT")),
                      answer, input, answer = "ok" /\ input # {})

\* Test 4: update the record; the remote updates the record of the current
\* value and refuses when there is none
ScriptUpdate ==
    \E answer \in IF TEST_VALUE \in input THEN Answers ELSE Answers \ {"ok"} :
        /\ server.pc = 4
        /\ ScriptTest(4, "updateRecord",
                      updateRecord("TXT", [domainName |-> TEST_DOMAIN, host |-> TEST_HOST,
                                           currentValue |-> TEST_VALUE,
                                           newValue |-> UPDATED_VALUE, ttl |-> Num(7200),
                                           priority |-> Undefined, port |-> Undefined,
                                           weight |-> Undefined]),
                      answer,
                      IF answer = "ok" THEN (input \ {TEST_VALUE}) \cup {UPDATED_VALUE}
                      ELSE input,
                      answer = "ok")

\* Test 5: the record is found by its host and its updated value
ScriptVerifyUpdated ==
    \E answer \in Answers :
        /\ server.pc = 5
        /\ ScriptTest(5, "searchRecords", searchRecords(ScriptSearchParams("TXT")),
                      answer, input, answer = "ok" /\ UPDATED_VALUE \in input)

\* Test 6, in the finally block: delete the record of value UPDATED_VALUE;
\* the remote deletes that record when the zone holds it and refuses when it
\* does not
ScriptDelete ==
    \E answer \in IF UPDATED_VALUE \in input THEN Answers \ {"api error"}
                  ELSE Answers \ {"ok"} :
        /\ server.pc = 6
        /\ ScriptTest(6, "deleteRecord",
                      deleteRecord("TXT", [domainName |-> TEST_DOMAIN, host |-> TEST_HOST,
                                           value |-> UPDATED_VALUE,
                                           port |-> Undefined, weight |-> Undefined]),
                      answer,
                      IF answer = "ok" THEN input \ {UPDATED_VALUE} ELSE input,
                      answer = "ok")

\* The summary: process.exit(1) when a test failed
ScriptSummary ==
    /\ server.pc = 7
    /\ server' = [server EXCEPT !.pc = 8,
                                !.exitCode = IF server.failed > 0 THEN Num(1) ELSE Num(0)]
    /\ UNCHANGED <<client, sent, outcome, calls, made, input>>

NextScript ==
    \/ ScriptSearch
    \/ ScriptAdd
    \/ ScriptVerifyAdded
    \/ ScriptUpdate
    \/ ScriptVerifyUpdated
    \/ ScriptDelete
    \/ ScriptSummary

SpecScript == InitScript /\ [][NextScript]_vars

\* The log entries of a test
TestsRun(test) == {k \in DOMAIN calls : calls[k].test = test}

\* The delete request of the cleanup was answered by the remote
CleanupAnswered == \E k \in TestsRun(6) : calls[k].answer \in {"ok", "api error"}

\* C24: every POST request of the script goes to a TXT endpoint with host
\* '_test-logicboxes-mcp'; once the tests are over the cleanup has run and
\* sent its delete request, whichever of the earlier tests failed; and when
\* the script has finished and the remote has answered that delete request,
\* the zone holds no record the script created.
C24_ScriptSafety ==
    /\ \A i \in DOMAIN sent :
           sent[i].req.method = "POST" =>
               /\ Includes(HrefOf(i), "-txt-record.json")
               /\ Get(QueryOf(i), "host") = TEST_HOST
    /\ server.pc > 6 =>
           /\ TestsRun(6) # {}
           /\ \E i \in DOMAIN sent : sent[i].op = "deleteRecord"
    /\ (server.pc = 8 /\ CleanupAnswered) => input = {}

\* C24's case: the add was answered, the update failed on the network, the
\* delete was answered, and the record of the first value is still there.
C24_LeftBehind ==
    /\ server.pc = 8
    /\ \E k \in TestsRun(2) : calls[k].answer = "ok"
    /\ \E k \in TestsRun(4) : calls[k].answer = "network error"
    /\ CleanupAnswered
    /\ input = {TEST_VALUE}

-----------------------------------------------------------------------------
(* DnsApi.searchAllRecords, every page request settling: the server reports *)
(* the total of a type as its count, leaves recsindb out, or sends a text   *)
(* that is no number; a request may fail.  A pending request is eventually  *)
(* settled.                                                                 *)

\* How a server fills recsindb
Reports == {"count", "absent", "text"}

\* The servers: a zone, and how the total of each type is reported
Servers ==
    {[zone |-> [t \in DnsRecordTypes |->
                    IF t = "A" THEN a ELSE IF t = "SOA" THEN 1 ELSE 0],
      recsindb |-> [t \in DnsRecordTypes |->
                    IF t = "A" THEN r ELSE IF t = "SOA" THEN "absent" ELSE "count"]] :
        a \in ZoneCounts, r \in Reports}

\* The body the server sends for a page of a type
ReportedPage(srv, type, pageNo) ==
    LET page == ZonePage(srv.zone, type, pageNo).obj
        style == srv.recsindb[type]
    IN  IF style = "count" THEN Obj(page)
        ELSE IF style = "absent"
        THEN Obj(SelectSeq(page, LAMBDA p : p[1] # "recsindb"))
        ELSE Obj([i \in 1..Len(page) |->
                    IF page[i][1] = "recsindb" THEN <<"recsindb", Str("many")>>
                    ELSE page[i]])

InitPaging ==
    /\ client = NewClient(DefaultConfig)
    /\ sent = <<>>
    /\ outcome = NoOutcome
    /\ calls = <<>>
    /\ made = 0
    /\ input \in Servers
    /\ server = NoServer

\* The server answers the pending request with its page
PageReported ==
    /\ Len(calls) = 1
    /\ PageSettles(NetJson(ReportedPage(input, allTypes[calls[1].typeIx], calls[1].pageNo)))

\* The pending request settles
PageRequestSettles ==
    \/ PageReported
    \/ PageFails

NextPaging ==
    \/ SearchAllRecords
    \/ PageReported
    \/ PageFails

\* A page request is pending: PageReported is enabled exactly then
PagePending == Len(calls) = 1 /\ calls[1].phase = "running"

\* Every page request eventually settles: WF_vars(PageRequestSettles), with
\* ENABLED <<PageRequestSettles>>_vars written out as PagePending
PagesSettle == <>[]PagePending => []<><<PageRequestSettles>>_vars

\* searchAllRecords with every page request eventually settling
FairAll == InitPaging /\ [][NextPaging]_vars /\ PagesSettle

-----------------------------------------------------------------------------
(* Termination of searchAllRecords (FairAll) *)

\* The largest total a server reports
MaxTotal == MathMax(ZoneCounts)

\* max(1, ceil(N / 50))
MaxPages(N) == MathMax({1, (N + AllPageSize - 1) \div AllPageSize})

\* The requests a call has issued for a type: the settled and the pending
Issued(frame, type) ==
    Cardinality({i \in 1..Len(frame.log) : frame.log[i].type = type})
    + (IF frame.phase = "running" /\ allTypes[frame.typeIx] = type THEN 1 ELSE 0)

\* The call has returned or thrown
AllSettled == Len(calls) = 1 /\ calls[1].phase \in {"returned", "threw"}

\* The type of the request after which the call threw, 0 when it did not
ThrewAt(frame) ==
    IF frame.phase = "threw" THEN TypeRank(frame.log[Len(frame.log)].type) ELSE 0

\* The requests of a call stay within max(1, ceil(N/50)) for each type, a
\* page without a numeric recsindb is the last of its type, and a settled
\* call has asked at least once for each type up to the one it ended at
PagingBounded ==
    \A c \in DOMAIN calls :
        LET frame == calls[c]
            log == frame.log
        IN  /\ \A t \in DnsRecordTypes : Issued(frame, t) <= MaxPages(MaxTotal)
            /\ \A i \in 1..Len(log) :
                (log[i].page.ok /\ input.recsindb[log[i].type] # "count")
                    => /\ ~MoreAfter(log[i])
                       /\ \A j \in 1..Len(log) : j > i => log[j].type # log[i].type
                       /\ frame.phase = "running" => allTypes[frame.typeIx] # log[i].type
            /\ frame.phase = "returned"
                => \A t \in DnsRecordTypes : Issued(frame, t) >= 1
            /\ frame.phase = "threw"
                => \A t \in DnsRecordTypes :
                      IF TypeRank(t) <= ThrewAt(frame) THEN Issued(frame, t) >= 1
                      ELSE Issued(frame, t) = 0

\* C25 as stated: a call that has returned or thrown has issued, for each of
\* the eight types, at least one and at most max(1, ceil(N/50)) requests.
C25_EveryTypeAsked ==
    AllSettled =>
        \A t \in DnsRecordTypes :
            /\ Issued(calls[1], t) >= 1
            /\ Issued(calls[1], t) <= MaxPages(MaxTotal)

\* C25: when every page request eventually settles and the reported totals
\* are at most N, a call of searchAllRecords eventually returns or throws;
\* it issues at most max(1, ceil(N/50)) requests for each type, at least one
\* for each type when it returns and for each type up to the failing one
\* when it throws; and a page whose recsindb is absent or not numeric is the
\* last page asked of its type.
C25_Terminates ==
    /\ []PagingBounded
    /\ (Len(calls) = 1) ~> AllSettled

\* C25's case: a zone of 51 A records whose server reports no numeric total
\* for A was read to the end: one page of A, one page of each other type.
C25_Witness ==
    /\ AllSettled
    /\ calls[1].phase = "returned"
    /\ input.zone["A"] = 51
    /\ input.recsindb["A"] = "text"
    /\ input.recsindb["SOA"] = "absent"
    /\ Len(calls[1].log) = 8
    /\ \A i \in 1..8 : calls[1].log[i].page.ok
    /\ Len(calls[1].log[1].page.val.records) = 50

-----------------------------------------------------------------------------
(* The type-specific parameters of update requests (SpecDns) *)

\* C26: every update-mx-record request issued by updateRecord carries
\* priority, and every update-srv-record request carries priority, port and
\* weight.
C26_UpdateCarriesFields ==
    \A i \in 1..Len(sent) :
        sent[i].op = "updateRecord" =>
            /\ Includes(HrefOf(i), "update-mx-record.json")
                => HasKey(QueryOf(i), "priority")
            /\ Includes(HrefOf(i), "update-srv-record.json")
                => /\ HasKey(QueryOf(i), "priority")
                   /\ HasKey(QueryOf(i), "port")
                   /\ HasKey(QueryOf(i), "weight")

\* An update of an MX record called without priority was sent, without it
C26_SentWithoutPriority ==
    /\ outcome.op = "updateRecord"
    /\ outcome.args[1] = "MX"
    /\ outcome.args[2].priority = Undefined
    /\ Len(sent) >= 1
    /\ Includes(HrefOf(Len(sent)), "update-mx-record.json")
    /\ ~HasKey(QueryOf(Len(sent)), "priority")

-----------------------------------------------------------------------------
(* Concurrent requests on one client: get and post are called while earlier *)
(* requests are still pending; each request has the controller and the      *)
(* timer its own call of request() made.                                    *)

\* The number of requests in flight on the client
MaxConcurrent == 2

ConcurrentParams ==
    {Undefined, Obj(<< <<"no-of-records", Num(10)>>, <<"page-no", Num(1)>> >>)}

ConcurrentGet ==
    \E params \in ConcurrentParams :
        /\ made < MaxConcurrent
        /\ StartCall("get", [method |-> "GET", path |-> "domains/search.json",
                             params |-> params])

ConcurrentPost ==
    \E params \in ConcurrentParams :
        /\ made < MaxConcurrent
        /\ StartCall("post", [method |-> "POST", path |-> "domains/search.json",
                              params |-> params])

NextConcurrent ==
    \/ ConcurrentGet
    \/ ConcurrentPost
    \/ FetchResolves
    \/ FetchRejects
    \/ JsonResolves
    \/ JsonRejects
    \/ TimerFires

SpecConcurrent == InitClient /\ [][NextConcurrent]_vars

\* The network answered the request with status 200 and a body that is no
\* error payload, and its timer did not fire
Answered200(call) ==
    /\ call.net.fetch = "resolve"
    /\ call.net.status = 200
    /\ call.net.json = "resolve"
    /\ ~ApiFailure(call.net)
    /\ call.timer # "fired"

\* C27: the client's authUserId, apiKey, baseUrl (ending in '/') and timeout
\* are those of its construction and never change; each call of get or post
\* has its own timer; a step of one request (its response, its failure, its
\* timer firing) changes no other request; and a request settles with what
\* its own response and its own timer make of it, whatever happened to the
\* others: the body when it was answered, the timeout error when its own
\* timer fired.
C27_RequestsIndependent ==
    /\ [](/\ client \in {NewClient(config) : config \in Configs}
          /\ EndsWith(client.baseUrl, "/")
          /\ \A id \in DOMAIN calls :
                /\ calls[id].timer = "fired" <=> /\ Settled(id)
                                                /\ "abort" \in {calls[id].net.fetch,
                                                                calls[id].net.json}
                /\ Settled(id) =>
                      calls[id].result = request(client, calls[id].args.url,
                                                 calls[id].args.method,
                                                 calls[id].args.body, calls[id].net)
                /\ (Settled(id) /\ Answered200(calls[id]))
                      => calls[id].result = Ok(calls[id].net.data))
    /\ [][/\ client' = client
          /\ \A id \in DOMAIN calls :
                calls'[id] # calls[id]
                    => \A other \in DOMAIN calls \ {id} : calls'[other] = calls[other]]_vars

\* C27's case: of two requests on one client the first timed out, and the
\* second was answered and returned its body.
C27_Witness ==
    /\ Len(calls) = 2
    /\ calls[1].timer = "fired"
    /\ calls[1].result = Throw(TimeoutError(client))
    /\ Len(sent) = 2
    /\ Settled(2)
    /\ Answered200(calls[2])
    /\ calls[2].timer = "cleared"
    /\ calls[2].result.ok

-----------------------------------------------------------------------------
(* The keys of a domain against the keys of its entry (SpecListing) *)

\* C28: for every entry of a domains/search response, distinct keys of the
\* entry become distinct keys of the domain, so that the domain has as many
\* keys as the entry, plus at most the derived domainname, and every value
\* of the entry is a value of the domain.
C28_StrippingKeepsKeys ==
    (outcome.op = "DomainApi.search" /\ outcome.result.ok) =>
        LET entries == ObjectEntries(input)
            domains == outcome.result.val.domains
        IN  \A n \in 1..Len(entries) :
                LET keys == KeysOf(entries[n])
                    domain == domains[n].obj
                IN  /\ \A i, j \in 1..Len(keys) :
                        i # j => CleanKey(keys[i]) # CleanKey(keys[j])
                    /\ Len(domain) \in {Len(keys), Len(keys) + 1}
                    /\ \A i \in 1..Len(keys) :
                        Get(domain, CleanKey(keys[i])) = Index(entries[n], keys[i])

\* An entry with orders.customerid and entity.customerid became a domain
\* with one customerid, that of the entity
C28_CustomerIdLost ==
    /\ outcome.op = "DomainApi.search"
    /\ outcome.result.ok
    /\ \E n \in 1..Len(ObjectEntries(input)) :
        /\ Index(ObjectEntries(input)[n], "orders.customerid") = Str("12345678")
        /\ Index(ObjectEntries(input)[n], "entity.customerid") = Str("87654321")
        /\ Get(outcome.result.val.domains[n].obj, "customerid") = Str("87654321")
        /\ Len(outcome.result.val.domains[n].obj) = 3

-----------------------------------------------------------------------------
(* Error payloads under every HTTP status: the remote answers the one       *)
(* request with a status and the body {status: 'ERROR', message: m}, both   *)
(* fixed at the start.                                                      *)

PayloadMessages ==
    {"Authentication failed", "No Entity found", "Invalid domain-name",
     "Zone not found", "Quota exceeded"}

\* The responses of the remote: a status line and an error payload
Payloads ==
    {[status |-> st, body |-> ErrorResponse(Str("ERROR"), Str(m))] :
        st \in HttpStatuses, m \in PayloadMessages}

InitPayloads ==
    /\ client \in {NewClient(config) : config \in Configs}
    /\ sent = <<>>
    /\ outcome = NoOutcome
    /\ calls = <<>>
    /\ made = 0
    /\ input \in Payloads
    /\ server = NoServer

PayloadGet ==
    \E params \in ConcurrentParams :
        /\ made = 0
        /\ StartCall("get", [method |-> "GET", path |-> "domains/search.json",
                             params |-> params])

PayloadPost ==
    \E params \in ConcurrentParams :
        /\ made = 0
        /\ StartCall("post", [method |-> "POST", path |-> "domains/search.json",
                              params |-> params])

\* fetch() resolves with the response of the remote: a status that is not
\* ok throws at once, the body unread
PayloadArrives ==
    \E id \in DOMAIN calls :
        /\ calls[id].phase = "fetching"
        /\ LET net == [calls[id].net EXCEPT !.fetch = "resolve",
                                            !.status = input.status.code,
                                            !.statusText = input.status.text]
           IN  calls' = [calls EXCEPT ![id] =
                            IF ResponseOk(input.status.code)
                            THEN [@ EXCEPT !.phase = "reading", !.net = net]
                            ELSE Settle(client, @, net)]
        /\ UNCHANGED <<server, client, sent, outcome, made, input>>

\* response.json() resolves with the body of the remote
PayloadRead ==
    \E id \in DOMAIN calls :
        /\ calls[id].phase = "reading"
        /\ calls' = [calls EXCEPT ![id] =
                        Settle(client, @, [@.net EXCEPT !.json = "resolve",
                                                        !.data = input.body])]
        /\ UNCHANGED <<server, client, sent, outcome, made, input>>

NextPayloads ==
    \/ PayloadGet
    \/ PayloadPost
    \/ PayloadArrives
    \/ PayloadRead

SpecPayloads == InitPayloads /\ [][NextPayloads]_vars

\* C29: whenever the remote returns the body {status: 'ERROR', message: m},
\* whatever the HTTP status of the response, the call rejects with the
\* error createErrorFromResponse makes of the body.
C29_PayloadClassified ==
    \A id \in DOMAIN calls :
        Settled(id) =>
            calls[id].result = Throw(createErrorFromResponse(input.body.obj).val)

\* The remote answered 'Authentication failed' under status 500 and the
\* call rejected with the plain LogicBoxesError of the status line
C29_StatusLineInstead ==
    \E id \in DOMAIN calls :
        /\ Settled(id)
        /\ input.status.code = 500
        /\ Get(input.body.obj, "message") = Str("Authentication failed")
        /\ ~calls[id].result.ok
        /\ calls[id].result.err.cls = "LogicBoxesError"
        /\ calls[id].result.err.message = "HTTP 500: Internal Server Error"

-----------------------------------------------------------------------------
(* The identifiers of get_customer and get_domain (SpecServer) *)

\* The one request of the last tool call went to path with key = value
OneRequest(path, key, value) ==
    /\ Len(sent) = 1
    /\ outcome.result.api # NoCall
    /\ HrefOf(1) = client.baseUrl \o path
    /\ HasKey(QueryOf(1), key)
    /\ Get(QueryOf(1), key) = value

\* The handler answered with the error text and called no API method
RefusedWithout(text) ==
    /\ sent = <<>>
    /\ outcome.result.api = NoCall
    /\ outcome.result.result = ErrorResult(text)

\* C30: get_customer without customerId and username, and get_domain
\* without orderId and domainName, answer isError with 'At least one of ...
\* must be provided' and call no API; with one identifier they make exactly
\* one API call, for that identifier (a customerId as the number it reads
\* as); with both they make exactly one call, get_customer the lookup by
\* username and get_domain the lookup by orderId.
C30_IdentifierHandling ==
    /\ (outcome.op = "get_customer" /\ HandlerRan) =>
        LET args == outcome.args[1]
        IN  IF args.customerId = Undefined /\ args.username = Undefined
            THEN RefusedWithout(
                     "Error: At least one of customerId or username must be provided.")
            ELSE IF args.username # Undefined
            THEN /\ OneRequest("customers/details.json", "username", args.username.str)
                 /\ ~HasKey(QueryOf(1), "customer-id")
            ELSE /\ OneRequest("customers/details-by-id.json", "customer-id",
                               String(Number(args.customerId.str)))
                 /\ ~HasKey(QueryOf(1), "username")
    /\ (outcome.op = "get_domain" /\ HandlerRan) =>
        LET args == outcome.args[1]
        IN  IF args.orderId = Undefined /\ args.domainName = Undefined
            THEN RefusedWithout(
                     "Error: At least one of orderId or domainName must be provided.")
            ELSE IF args.orderId # Undefined
            THEN /\ OneRequest("domains/details.json", "order-id", args.orderId.str)
                 /\ ~HasKey(QueryOf(1), "domain-name")
            ELSE /\ OneRequest("domains/details-by-name.json", "domain-name",
                               args.domainName.str)
                 /\ ~HasKey(QueryOf(1), "order-id")

\* C30's case: get_customer was called with both identifiers and looked the
\* customer up by username.
C30_Witness ==
    /\ outcome.op = "get_customer"
    /\ HandlerRan
    /\ outcome.args[1].customerId = Str("12345678")
    /\ outcome.args[1].username = Str("user@example.com")
    /\ Len(sent) = 1
    /\ Includes(HrefOf(1), "customers/details.json")
    /\ Get(QueryOf(1), "username") = "user@example.com"
    /\ ApiReturned

====
